---- MODULE Spec2Model ----
(***************************************************************************)
(* A model of the rustis key-value server: one client connection sending   *)
(* RESP commands to Connection::process_event (src/src/connection.rs),     *)
(* the 16 keyspaces of src/src/database.rs and the wall clock.             *)
(*                                                                         *)
(* Byte strings are sequences of byte values 0..255; the comment next to   *)
(* a literal gives its ASCII text.  u128 is modelled with U128Bits bits.   *)
(* Arithmetic on it wraps around: the server binary the repository's own   *)
(* tests start is the release build (src/tests/common/mod.rs:12-15), in    *)
(* which Rust's integer overflow wraps.                                    *)
(***************************************************************************)
EXTENDS Integers, Sequences, FiniteSets, TLC

VARIABLES
    dbs,        \* DATABASES: keyspace index -> (key -> DBValue)
    now,        \* the wall clock in milliseconds, what now() returns
    config,     \* the shared Config (dir, dbfilename)
    conn,       \* the client connection: "open" or "dropped"
    crashed,    \* TRUE once a panic (todo!(), unimplemented!()) ended the process
    cmd,        \* the RESP term read in this event-loop iteration (Idle: none)
    reply,      \* the bytes written to the stream in this iteration
    pre_db,     \* keyspace 0 as it was when this iteration's read began
    store,      \* the client's record of its last SET answered +OK
    pre_store,  \* that record as it was when this iteration's read began
    subject,    \* the bytes a parser or the snapshot loader is applied to
    outcome,    \* what it returned
    connections,    \* Server::connections, the descriptors in list order
    arrivals,       \* how many connections the listener has handed out
    iteration,      \* what the last Server::run_once did
    last_snapshot,  \* the clock at the last snapshot attempt
    snapshots       \* the snapshot attempts so far

\* the state of the event loop
loop_vars == <<connections, arrivals, iteration, last_snapshot, snapshots>>

vars ==
    <<dbs, now, config, conn, crashed, cmd, reply, pre_db, store, pre_store,
      subject, outcome, connections, arrivals, iteration, last_snapshot,
      snapshots>>

-----------------------------------------------------------------------------
(* Bounds of the model *)

\* Width standing in for the 128 bits of u128.
U128Bits == 11
\* The wall clock runs from 1 to MaxClock.
MaxClock == 3
\* width of usize in the model
UsizeBits == 6

(* Program constants *)

DEFAULT_DATABASES == 16

RECURSIVE Pow2(_)
Pow2(n) == IF n = 0 THEN 1 ELSE 2 * Pow2(n - 1)

U128_MODULUS == Pow2(U128Bits)
U128_MAX == U128_MODULUS - 1
\* usize, the machine word of the length fields
USIZE_MAX == Pow2(UsizeBits) - 1

CRLF == <<13, 10>>                    \* "\r\n"
NULL == <<36, 45, 49, 13, 10>>        \* "$-1\r\n"
EMPTY_ARRAY == <<42, 48, 13, 10>>     \* "*0\r\n"
OK == <<43, 79, 75, 13, 10>>          \* "+OK\r\n"
PONG == <<43, 80, 79, 78, 71, 13, 10>> \* "+PONG\r\n"
ERR_PREFIX_TEXT == <<69, 82, 82, 32>>                \* "ERR "
ERR_PREFIX == <<45, 69, 82, 82, 32>>  \* "-ERR "

\* "syntax error"
MSG_SYNTAX == <<115, 121, 110, 116, 97, 120, 32, 101, 114, 114, 111, 114>>
\* "value is not an integer or out of range"
MSG_NOT_INT ==
    <<118, 97, 108, 117, 101, 32, 105, 115, 32, 110, 111, 116, 32, 97, 110,
      32, 105, 110, 116, 101, 103, 101, 114, 32, 111, 114, 32, 111, 117, 116,
      32, 111, 102, 32, 114, 97, 110, 103, 101>>
\* "wrong number of arguments for 'set' command"
MSG_SET_ARGS ==
    <<119, 114, 111, 110, 103, 32, 110, 117, 109, 98, 101, 114, 32, 111, 102,
      32, 97, 114, 103, 117, 109, 101, 110, 116, 115, 32, 102, 111, 114, 32,
      39, 115, 101, 116, 39, 32, 99, 111, 109, 109, 97, 110, 100>>

T_SET == <<83, 69, 84>>                       \* "SET"
T_GET == <<71, 69, 84>>                       \* "GET"
T_PING == <<80, 73, 78, 71>>                  \* "PING"
T_COMMAND == <<67, 79, 77, 77, 65, 78, 68>>   \* "COMMAND"
T_ECHO == <<69, 67, 72, 79>>                  \* "ECHO"
T_CLIENT == <<67, 76, 73, 69, 78, 84>>        \* "CLIENT"
T_NX == <<78, 88>>                            \* "NX"
T_XX == <<88, 88>>                            \* "XX"
T_EX == <<69, 88>>                            \* "EX"
T_PX == <<80, 88>>                            \* "PX"
T_EXAT == <<69, 88, 65, 84>>                  \* "EXAT"
T_PXAT == <<80, 88, 65, 84>>                  \* "PXAT"
T_KEEPTTL == <<75, 69, 69, 80, 84, 84, 76>>   \* "KEEPTTL"

-----------------------------------------------------------------------------
(* RESP terms (src/src/resp.rs) and Option<u128> *)

SimpleString(b) == [type |-> "SimpleString", data |-> b]
SimpleError(b) == [type |-> "SimpleError", data |-> b]
BulkString(b) == [type |-> "BulkString", data |-> b]
Array(elems) == [type |-> "Array", data |-> elems]

None == [some |-> FALSE, val |-> 0]
Some(n) == [some |-> TRUE, val |-> n]

\* DBValue::new(value, ttl)
DBValue(value, ttl) == [value |-> value, ttl |-> ttl]

\* HashMap::insert and HashMap::remove on one keyspace
MapInsert(db, key, v) ==
    [k \in (DOMAIN db) \cup {key} |-> IF k = key THEN v ELSE db[k]]
MapRemove(db, key) == [k \in (DOMAIN db) \ {key} |-> db[k]]

EmptyMap == [k \in {} |-> None]

\* the tail of a sequence from index i on
Drop(s, i) == [j \in 1..(Len(s) - i + 1) |-> s[j + i - 1]]

-----------------------------------------------------------------------------
(* Byte-string helpers *)

\* [u8]::to_ascii_uppercase
to_ascii_uppercase(s) ==
    [i \in 1..Len(s) |-> IF s[i] \in 97..122 THEN s[i] - 32 ELSE s[i]]

\* String::from_utf8_lossy: every byte that is not part of a well-formed
\* UTF-8 sequence becomes U+FFFD.  The model's only bytes above 127 are
\* lone 0xFF bytes, which are never well-formed.
from_utf8_lossy(raw) ==
    [i \in 1..Len(raw) |-> IF raw[i] >= 128 THEN 65533 ELSE raw[i]]

\* format!("{}", n) of an unsigned integer: its decimal digits
RECURSIVE ToDecimal(_)
ToDecimal(n) ==
    IF n < 10 THEN <<48 + n>>
    ELSE Append(ToDecimal(n \div 10), 48 + (n % 10))

\* u128 arithmetic of the release build: wrapping
WrappingAdd(a, b) == (a + b) % U128_MODULUS
WrappingMul(a, b) == (a * b) % U128_MODULUS

\* str::parse::<u128>, digit by digit with checked_mul / checked_add;
\* acc is the value read so far.
RECURSIVE ParseDigits(_, _, _)
ParseDigits(s, i, acc) ==
    IF i > Len(s) THEN [ok |-> TRUE, val |-> acc]
    ELSE IF s[i] \notin 48..57 THEN [ok |-> FALSE, val |-> 0]
    ELSE IF acc * 10 + (s[i] - 48) > U128_MAX THEN [ok |-> FALSE, val |-> 0]
    ELSE ParseDigits(s, i + 1, acc * 10 + (s[i] - 48))

\* str::parse::<u128>: an empty string and a lone sign are errors, one
\* leading '+' is skipped, '-' is not a digit of an unsigned type.
parse_u128(s) ==
    IF Len(s) = 0 THEN [ok |-> FALSE, val |-> 0]
    ELSE IF Len(s) = 1 /\ s[1] \in {43, 45} THEN [ok |-> FALSE, val |-> 0]
    ELSE IF s[1] = 43 THEN ParseDigits(s, 2, 0)
    ELSE ParseDigits(s, 1, 0)

-----------------------------------------------------------------------------
(* Reply encoders (src/src/connection.rs) *)

\* an error line written without the "-ERR " prefix
write_error_unprefixed(error) == error \o CRLF

\* Connection::write_error: "-ERR " + message + CRLF
write_error(error) == ERR_PREFIX \o error \o CRLF

\* a bulk string written with the length of its text after CRLF is
\* stripped, as a line-oriented encoder would
RECURSIVE strip_crlf(_)
strip_crlf(data) ==
    IF Len(data) = 0 THEN <<>>
    ELSE IF data[1] \in {13, 10} THEN strip_crlf(Tail(data))
    ELSE <<data[1]>> \o strip_crlf(Tail(data))
write_bulk_string_by_line(data) ==
    <<36>> \o ToDecimal(Len(strip_crlf(data))) \o CRLF \o data \o CRLF

\* Connection::write_bulk_string: '$' + length + CRLF + data + CRLF
write_bulk_string(data) ==
    <<36>> \o ToDecimal(Len(data)) \o CRLF \o data \o CRLF

\* Connection::write_array: '*' + count + CRLF, then each element as a
\* bulk string
RECURSIVE write_array_elements(_, _)
write_array_elements(array, i) ==
    IF i > Len(array) THEN <<>>
    ELSE write_bulk_string(array[i]) \o write_array_elements(array, i + 1)

write_array(array) ==
    <<42>> \o ToDecimal(Len(array)) \o CRLF \o write_array_elements(array, 1)

-----------------------------------------------------------------------------
(* What a handler returns: Ok(()) with the bytes it wrote and the keyspace *)
(* it left, Err(ClientError(msg)), another Err, or a panic.                *)

Done(out, db) == [kind |-> "ok", out |-> out, db |-> db, msg |-> <<>>]
ClientError(msg, db) ==
    [kind |-> "client_error", out |-> <<>>, db |-> db, msg |-> msg]
Fatal(db) == [kind |-> "fatal", out |-> <<>>, db |-> db, msg |-> <<>>]
Panic(db) == [kind |-> "panic", out |-> <<>>, db |-> db, msg |-> <<>>]

-----------------------------------------------------------------------------
(* SET *)

\* parse_u128_arg: the element at position i of the option list, if any
parse_u128_arg(args, i) ==
    IF i <= Len(args) /\ args[i].type = "BulkString"
    THEN LET p == parse_u128(from_utf8_lossy(args[i].data))
         IN  IF p.ok THEN [kind |-> "ok", val |-> p.val, msg |-> <<>>]
             ELSE [kind |-> "client_error", val |-> 0, msg |-> MSG_NOT_INT]
    ELSE [kind |-> "client_error", val |-> 0, msg |-> MSG_SYNTAX]

\* ttl = Some(...) of the four time options, from the parsed argument
ex_expiry(t, arg) == WrappingAdd(t, WrappingMul(arg, 1000))
px_expiry(t, arg) == WrappingAdd(t, arg)
exat_expiry(t, arg) == WrappingMul(arg, 1000)
pxat_expiry(t, arg) == arg

time_option_expiry(tok, t, arg) ==
    CASE tok = T_EX -> ex_expiry(t, arg)
      [] tok = T_PX -> px_expiry(t, arg)
      [] tok = T_EXAT -> exat_expiry(t, arg)
      [] tok = T_PXAT -> pxat_expiry(t, arg)

\* The option loop of handle_set: `while let Some(BulkString(arg)) =
\* iter.next()`.  st holds ttl, nx, xx, keep_ttl; t is what now() returns.
\* The loop ends at the end of the list and at the first element that is
\* not a bulk string.
RECURSIVE set_options(_, _, _, _)
set_options(args, i, st, t) ==
    IF i > Len(args) \/ args[i].type # "BulkString"
    THEN [kind |-> "ok", msg |-> <<>>, st |-> st]
    ELSE LET tok == to_ascii_uppercase(args[i].data) IN
         CASE tok = T_NX -> set_options(args, i + 1, [st EXCEPT !.nx = TRUE], t)
           [] tok = T_XX -> set_options(args, i + 1, [st EXCEPT !.xx = TRUE], t)
           [] tok \in {T_EX, T_PX, T_EXAT, T_PXAT} ->
                IF st.ttl.some
                THEN [kind |-> "client_error", msg |-> MSG_SYNTAX, st |-> st]
                ELSE LET a == parse_u128_arg(args, i + 1) IN
                     IF a.kind # "ok"
                     THEN [kind |-> "client_error", msg |-> a.msg, st |-> st]
                     ELSE set_options(args, i + 2,
                            [st EXCEPT !.ttl = Some(time_option_expiry(tok, t, a.val))],
                            t)
           [] tok = T_KEEPTTL ->
                set_options(args, i + 1, [st EXCEPT !.keep_ttl = TRUE], t)
           [] OTHER -> [kind |-> "client_error", msg |-> MSG_SYNTAX, st |-> st]

\* `nx && db.contains_key(key)`
nx_blocked(nx, db, key) == nx /\ key \in DOMAIN db

\* `xx && !db.contains_key(key)`
xx_blocked(xx, db, key) == xx /\ key \notin DOMAIN db

\* `if keep_ttl { if let Some(DBValue { ttl: old_ttl, .. }) = db.get(key)
\* { ttl = *old_ttl } }`
keep_ttl_expiry(keep_ttl, db, key, ttl) ==
    IF keep_ttl /\ key \in DOMAIN db THEN db[key].ttl ELSE ttl

\* Connection::handle_set on keyspace 0
handle_set(args, db, t) ==
    IF Len(args) < 1 \/ args[1].type # "BulkString"
    THEN ClientError(MSG_SET_ARGS, db)
    ELSE IF Len(args) < 2 \/ args[2].type # "BulkString"
    THEN ClientError(MSG_SET_ARGS, db)
    ELSE
      LET key == args[1].data
          value == args[2].data
          o == set_options(Drop(args, 3), 1,
                  [ttl |-> None, nx |-> FALSE, xx |-> FALSE, keep_ttl |-> FALSE], t)
      IN
      IF o.kind # "ok" THEN ClientError(o.msg, db)
      ELSE IF o.st.nx /\ o.st.xx THEN ClientError(MSG_SYNTAX, db)
      ELSE IF nx_blocked(o.st.nx, db, key) THEN Done(NULL, db)
      ELSE IF xx_blocked(o.st.xx, db, key) THEN Done(NULL, db)
      ELSE Done(OK,
             MapInsert(db, key,
               DBValue(value, keep_ttl_expiry(o.st.keep_ttl, db, key, o.st.ttl))))

-----------------------------------------------------------------------------
(* GET *)

\* an entry counted as expired from its deadline on
expired_at_deadline(entry, t) == entry.ttl.some /\ t >= entry.ttl.val

\* `now > *ttl` on an entry with a ttl
expired(entry, t) == entry.ttl.some /\ t > entry.ttl.val

\* a GET that removes the key it answered
handle_get_removing(args, db, t) ==
    IF ~(Len(args) = 1 /\ args[1].type = "BulkString") THEN Panic(db)
    ELSE
      LET key == args[1].data IN
      IF key \in DOMAIN db
      THEN IF expired(db[key], t)
           THEN Done(NULL, MapRemove(db, key))
           ELSE Done(write_bulk_string(db[key].value), MapRemove(db, key))
      ELSE Done(NULL, db)

\* Connection::handle_get on keyspace 0
handle_get(args, db, t) ==
    IF ~(Len(args) = 1 /\ args[1].type = "BulkString") THEN Panic(db)
    ELSE
      LET key == args[1].data IN
      IF key \in DOMAIN db
      THEN IF expired(db[key], t)
           THEN Done(NULL, MapRemove(db, key))
           ELSE Done(write_bulk_string(db[key].value), db)
      ELSE Done(NULL, db)

-----------------------------------------------------------------------------
(* The other commands *)

T_CONFIG == <<67, 79, 78, 70, 73, 71>>                        \* "CONFIG"
T_DBFILENAME == <<68, 66, 70, 73, 76, 69, 78, 65, 77, 69>>    \* "DBFILENAME"
T_DIR == <<68, 73, 82>>                                       \* "DIR"
NAME_DBFILENAME == <<100, 98, 102, 105, 108, 101, 110, 97, 109, 101>> \* "dbfilename"
NAME_DIR == <<100, 105, 114>>                                 \* "dir"
\* "wrong number of arguments for 'config' command"
MSG_CONFIG_ARGS ==
    <<119, 114, 111, 110, 103, 32, 110, 117, 109, 98, 101, 114, 32, 111, 102,
      32, 97, 114, 103, 117, 109, 101, 110, 116, 115, 32, 102, 111, 114, 32,
      39, 99, 111, 110, 102, 105, 103, 39, 32, 99, 111, 109, 109, 97, 110, 100>>
\* "wrong number of arguments for 'config|get' command"
MSG_CONFIG_GET_ARGS ==
    <<119, 114, 111, 110, 103, 32, 110, 117, 109, 98, 101, 114, 32, 111, 102,
      32, 97, 114, 103, 117, 109, 101, 110, 116, 115, 32, 102, 111, 114, 32,
      39, 99, 111, 110, 102, 105, 103, 124, 103, 101, 116, 39, 32, 99, 111,
      109, 109, 97, 110, 100>>

\* Connection::handle_ping, handle_command, handle_client
handle_ping(db) == Done(PONG, db)
handle_command(db) == Done(OK, db)
handle_client(args, db) == Done(OK, db)

\* Connection::handle_echo
handle_echo(args, db) ==
    IF Len(args) = 1 /\ args[1].type = "BulkString"
    THEN Done(<<43>> \o args[1].data \o CRLF, db)
    ELSE Panic(db)

\* handle_config_get matching the name as it was sent
handle_config_get_exact(args, db, cfg) ==
    IF Len(args) < 1 \/ args[1].type # "BulkString"
    THEN ClientError(MSG_CONFIG_GET_ARGS, db)
    ELSE LET key == args[1].data IN
         CASE key = T_DBFILENAME ->
                Done(write_array(<<NAME_DBFILENAME, cfg.dbfilename>>), db)
           [] key = T_DIR -> Done(write_array(<<NAME_DIR, cfg.dir>>), db)
           [] OTHER -> Done(EMPTY_ARRAY, db)

\* Connection::handle_config_get
handle_config_get(args, db, cfg) ==
    IF Len(args) < 1 \/ args[1].type # "BulkString"
    THEN ClientError(MSG_CONFIG_GET_ARGS, db)
    ELSE LET key == to_ascii_uppercase(args[1].data) IN
         CASE key = T_DBFILENAME ->
                Done(write_array(<<NAME_DBFILENAME, cfg.dbfilename>>), db)
           [] key = T_DIR -> Done(write_array(<<NAME_DIR, cfg.dir>>), db)
           [] OTHER -> Done(EMPTY_ARRAY, db)

\* Connection::handle_config; handle_config_set is todo!()
handle_config(args, db, cfg) ==
    IF Len(args) < 1 \/ args[1].type # "BulkString"
    THEN ClientError(MSG_CONFIG_ARGS, db)
    ELSE LET sub == to_ascii_uppercase(args[1].data) IN
         CASE sub = T_GET -> handle_config_get(Drop(args, 2), db, cfg)
           [] OTHER -> Panic(db)

\* Connection::process_simple_string
process_simple_string(string, db) ==
    IF string = T_PING THEN Done(PONG, db) ELSE Fatal(db)

\* Connection::process_array
process_array(array, db, t, cfg) ==
    IF Len(array) >= 1 /\ array[1].type = "BulkString"
    THEN LET name == to_ascii_uppercase(array[1].data)
             args == Drop(array, 2)
         IN  CASE name = T_PING -> handle_ping(db)
               [] name = T_COMMAND -> handle_command(db)
               [] name = T_ECHO -> handle_echo(args, db)
               [] name = T_SET -> handle_set(args, db, t)
               [] name = T_GET -> handle_get(args, db, t)
               [] name = T_CONFIG -> handle_config(args, db, cfg)
               [] name = T_CLIENT -> handle_client(args, db)
               [] OTHER -> Panic(db)
    ELSE Panic(db)

\* Connection::process_input, the match on one term of the read buffer
process_term(data, db, t, cfg) ==
    CASE data.type = "SimpleString" -> process_simple_string(data.data, db)
      [] data.type = "Array" -> process_array(data.data, db, t, cfg)
      [] OTHER -> Panic(db)

\* Connection::process_input on the terms parse returned, from term i on;
\* out is what the terms before i wrote to the stream.  The `?` on a
\* handler's error leaves the loop.
RECURSIVE process_input(_, _, _, _, _, _)
process_input(terms, i, db, t, cfg, out) ==
    IF i > Len(terms) THEN Done(out, db)
    ELSE LET r == process_term(terms[i], db, t, cfg) IN
         IF r.kind = "ok"
         THEN process_input(terms, i + 1, r.db, t, cfg, out \o r.out)
         ELSE [r EXCEPT !.out = out]

-----------------------------------------------------------------------------
(* The client's view of its commands *)

Idle == [type |-> "Idle", data |-> <<>>]

NoStore ==
    [form |-> "none", key |-> <<>>, val |-> <<>>, t0 |-> 0, m |-> 0,
     nulled |-> FALSE]

\* the value of a string of decimal digits
RECURSIVE DecimalValue(_)
DecimalValue(d) ==
    IF Len(d) = 0 THEN 0
    ELSE 10 * DecimalValue(SubSeq(d, 1, Len(d) - 1)) + (d[Len(d)] - 48)

IsDigits(d) == Len(d) > 0 /\ \A i \in 1..Len(d) : d[i] \in 48..57

IsBulk(x) == x.type = "BulkString"

\* a SET command with a key and a value: its key, value and option list
IsSet(data) ==
    /\ data.type = "Array"
    /\ Len(data.data) >= 3
    /\ \A i \in 1..3 : IsBulk(data.data[i])
    /\ to_ascii_uppercase(data.data[1].data) = T_SET
SetKey(data) == data.data[2].data
SetValue(data) == data.data[3].data
SetOpts(data) == Drop(data.data, 4)

\* a GET command with one key
IsGet(data) ==
    /\ data.type = "Array"
    /\ Len(data.data) = 2
    /\ \A i \in 1..2 : IsBulk(data.data[i])
    /\ to_ascii_uppercase(data.data[1].data) = T_GET
GetKey(data) == data.data[2].data

\* option element i is the bulk string tok, in any case
IsToken(opts, i, tok) ==
    i <= Len(opts) /\ IsBulk(opts[i]) /\ to_ascii_uppercase(opts[i].data) = tok

\* the form of a SET: no option, NX alone, PX <digits> alone, or another
SetForm(data) ==
    LET opts == SetOpts(data) IN
    IF Len(opts) = 0 THEN "plain"
    ELSE IF Len(opts) = 1 /\ IsToken(opts, 1, T_NX) THEN "nx"
    ELSE IF Len(opts) = 2 /\ IsToken(opts, 1, T_PX) /\ IsBulk(opts[2])
            /\ IsDigits(opts[2].data) THEN "px"
    ELSE "other"

\* what the client remembers after the command data was answered with out
Remember(st, data, out, t) ==
    IF IsSet(data) /\ out = OK
    THEN [form |-> SetForm(data), key |-> SetKey(data), val |-> SetValue(data),
          t0 |-> IF SetForm(data) = "px" THEN t ELSE 0,
          m |-> IF SetForm(data) = "px"
                THEN DecimalValue(SetOpts(data)[2].data) ELSE 0,
          nulled |-> FALSE]
    ELSE IF IsGet(data) /\ st.form # "none" /\ GetKey(data) = st.key /\ out = NULL
    THEN [st EXCEPT !.nulled = TRUE]
    ELSE st

\* the terms of what was read: one command, or several in one buffer
Terms(read) == IF read.type = "Pipeline" THEN read.data ELSE <<read>>

\* what the client remembers after the terms from i on were processed
RECURSIVE RememberAll(_, _, _, _, _, _)
RememberAll(st, terms, i, db, t, cfg) ==
    IF i > Len(terms) THEN st
    ELSE LET r == process_term(terms[i], db, t, cfg) IN
         IF r.kind = "ok"
         THEN RememberAll(Remember(st, terms[i], r.out, t), terms, i + 1,
                          r.db, t, cfg)
         ELSE st

-----------------------------------------------------------------------------
(* Reading a reply (src/src/parsers/resp_data.rs) *)

\* digit1: the end of the run of ASCII digits that starts at i
RECURSIVE digit1_end(_, _)
digit1_end(input, i) ==
    IF i <= Len(input) /\ input[i] \in 48..57 THEN digit1_end(input, i + 1)
    ELSE i

NoParse == [ok |-> FALSE, data |-> <<>>, rest |-> <<>>]

\* take_until(CRLF): where the first CRLF at or after i starts, 0 if none
RECURSIVE take_until_crlf(_, _)
take_until_crlf(input, i) ==
    IF i + 1 > Len(input) THEN 0
    ELSE IF input[i] = 13 /\ input[i + 1] = 10 THEN i
    ELSE take_until_crlf(input, i + 1)

\* map_res(delimited(tag(mark), digit1, tag(CRLF)), parse::<usize>): the
\* length field of a bulk string or of an array
nom_length(input, mark) ==
    IF Len(input) < 1 \/ input[1] # mark THEN [ok |-> FALSE, val |-> 0, rest |-> <<>>]
    ELSE LET e == digit1_end(input, 2) IN
         IF e = 2 \/ e + 1 > Len(input) \/ input[e] # 13 \/ input[e + 1] # 10
         THEN [ok |-> FALSE, val |-> 0, rest |-> <<>>]
         ELSE LET n == DecimalValue(SubSeq(input, 2, e - 1)) IN
              IF n > USIZE_MAX THEN [ok |-> FALSE, val |-> 0, rest |-> <<>>]
              ELSE [ok |-> TRUE, val |-> n, rest |-> SubSeq(input, e + 2, Len(input))]

\* a bulk string read up to the first CRLF instead of by its length
nom_bulk_string_to_crlf(input) ==
    LET h == nom_length(input, 36) IN
    IF ~h.ok THEN NoParse
    ELSE LET e == take_until_crlf(h.rest, 1) IN
         IF e = 0 THEN NoParse
         ELSE [ok |-> TRUE,
               data |-> SubSeq(h.rest, 1, e - 1),
               rest |-> SubSeq(h.rest, e + 2, Len(h.rest))]

\* nom_bulk_string: '$', digits, CRLF, that many bytes, CRLF
nom_bulk_string(input) ==
    LET h == nom_length(input, 36) IN
    IF ~h.ok THEN NoParse
    ELSE IF h.val + 2 > Len(h.rest)
            \/ h.rest[h.val + 1] # 13
            \/ h.rest[h.val + 2] # 10
    THEN NoParse
    ELSE [ok |-> TRUE,
          data |-> SubSeq(h.rest, 1, h.val),
          rest |-> SubSeq(h.rest, h.val + 3, Len(h.rest))]

\* delimited(tag(mark), take_until(CRLF), tag(CRLF))
delimited_line(input, mark) ==
    IF Len(input) < 1 \/ input[1] # mark THEN NoParse
    ELSE LET e == take_until_crlf(input, 2) IN
         IF e = 0 THEN NoParse
         ELSE [ok |-> TRUE,
               data |-> SubSeq(input, 2, e - 1),
               rest |-> SubSeq(input, e + 2, Len(input))]

\* nom_simple_string and nom_simple_error
nom_simple_string(input) == delimited_line(input, 43)
nom_simple_error(input) == delimited_line(input, 45)

\* a nom_data that succeeds on the input as it is when no form parses
nom_data_or_nothing(input) ==
    LET s == nom_simple_string(input) IN
    IF s.ok THEN [s EXCEPT !.data = SimpleString(s.data)]
    ELSE LET b == nom_bulk_string(input) IN
    IF b.ok THEN [b EXCEPT !.data = BulkString(b.data)]
    ELSE [ok |-> TRUE, data |-> SimpleString(<<>>), rest |-> input]

\* nom_data: alt((nom_simple_string, nom_simple_error, nom_bulk_string,
\* nom_array)); nom_array: '*', digits, CRLF, then count(nom_data, length)
RECURSIVE nom_data(_)
RECURSIVE count_nom_data(_, _, _)
count_nom_data(input, n, acc) ==
    IF n = 0 THEN [ok |-> TRUE, data |-> acc, rest |-> input]
    ELSE LET r == nom_data(input) IN
         IF ~r.ok THEN NoParse
         ELSE count_nom_data(r.rest, n - 1, Append(acc, r.data))

nom_array(input) ==
    LET h == nom_length(input, 42) IN
    IF ~h.ok THEN NoParse ELSE count_nom_data(h.rest, h.val, <<>>)

nom_data(input) ==
    LET s == nom_simple_string(input) IN
    IF s.ok THEN [s EXCEPT !.data = SimpleString(s.data)]
    ELSE LET e == nom_simple_error(input) IN
    IF e.ok THEN [e EXCEPT !.data = SimpleError(e.data)]
    ELSE LET b == nom_bulk_string(input) IN
    IF b.ok THEN [b EXCEPT !.data = BulkString(b.data)]
    ELSE LET a == nom_array(input) IN
    IF a.ok THEN [a EXCEPT !.data = Array(a.data)]
    ELSE NoParse

\* a parse that hands back the terms read before the one that does not parse
RECURSIVE parse_from_lenient(_, _, _)
parse_from_lenient(input, data, error) ==
    IF Len(input) = 0 THEN [kind |-> "Ok", terms |-> data]
    ELSE LET r == nom_data(input) IN
         IF r.ok THEN parse_from_lenient(r.rest, Append(data, r.data), error)
         ELSE [kind |-> "Ok", terms |-> data]

\* parsers::resp_data::parse: terms until the buffer is empty; a term that
\* does not parse gives RustisError::InvalidInput
RECURSIVE parse_from(_, _, _)
parse_from(input, data, error) ==
    IF Len(input) = 0 THEN [kind |-> "Ok", terms |-> data]
    ELSE LET r == nom_data(input) IN
         IF r.ok THEN parse_from(r.rest, Append(data, r.data), error)
         ELSE [kind |-> error, terms |-> <<>>]

parse(input) == parse_from(input, <<>>, "InvalidInput")

\* parse::parse_input (src/src/parse.rs): the same loop with `err.into()`,
\* which From<nom::Err> turns into RustisError::NomError
parse_input(input) == parse_from(input, <<>>, "NomError")

-----------------------------------------------------------------------------
(* The commands the client sends *)

K1 == <<107>>               \* "k"
K2 == <<107, 50>>           \* "k2"
K3 == <<113>>               \* "q", never written

\* values: CR, LF, NUL and a high-bit byte; a plain letter
V1 == <<13, 10, 0, 255>>
V2 == <<118>>
\* further values, written to K1 without options
PlainValues ==
    { <<>>, <<0>>, <<36, 45, 49, 13, 10>>,
      <<97, 13, 10, 98, 0, 255, 128, 10, 13, 36, 43>> }

Tok(b) == <<BulkString(b)>>
NonBulk == <<SimpleString(<<120>>)>>      \* +x

\* arguments of the time options
ARG_MAX == ToDecimal(U128_MAX)
ARG_TOO_LARGE == ToDecimal(U128_MODULUS)
GoodArgs == { <<48>>, <<49>>, ARG_MAX }    \* "0", "1", the largest u128
BadArgs ==
    { <<>>, <<43, 49>>, <<45, 49>>, <<49, 97>>, <<49, 255>>, ARG_TOO_LARGE }
    \* "", "+1", "-1", "1a", "1\xff", one more than the largest u128
TimeTokens == { T_EX, T_PX, T_EXAT, T_PXAT }
Flags == { T_NX, T_XX, T_KEEPTTL }

TimeOption(tok, arg) == <<BulkString(tok), BulkString(arg)>>
PX1 == TimeOption(T_PX, <<49>>)
\* well-formed time options used in combinations
GoodTimeOptions == { PX1, TimeOption(T_PXAT, <<49>>), TimeOption(T_EX, <<49>>) }

OptionLists ==
    {<<>>}
    \cup { Tok(f) : f \in Flags \cup { <<110, 120>>, <<70, 79, 79>> } }
    \cup { TimeOption(tok, a) : tok \in TimeTokens, a \in GoodArgs \cup BadArgs }
    \cup { TimeOption(<<112, 120>>, <<49>>) }
    \cup { Tok(f) \o p : f \in Flags, p \in GoodTimeOptions }
    \cup { p \o Tok(f) : f \in Flags, p \in GoodTimeOptions }
    \cup { Tok(f) \o Tok(g) : f \in Flags, g \in Flags }
    \cup { p \o q : p \in GoodTimeOptions, q \in GoodTimeOptions }
    \cup { Tok(T_PX), Tok(T_NX) \o Tok(T_EX),
           TimeOption(T_PX, <<97>>) \o TimeOption(T_EX, <<49>>),
           Tok(T_NX) \o Tok(T_XX) \o TimeOption(T_PX, <<97>>) }
    \cup { Tok(T_NX) \o Tok(T_XX) \o PX1,
           Tok(T_NX) \o PX1 \o Tok(T_XX),
           PX1 \o Tok(T_XX) \o Tok(T_NX) }
    \cup { NonBulk, NonBulk \o Tok(T_NX), NonBulk \o Tok(T_KEEPTTL),
           NonBulk \o Tok(T_NX) \o Tok(T_XX),
           Tok(T_NX) \o NonBulk \o Tok(T_XX),
           PX1 \o NonBulk \o TimeOption(T_EX, <<49>>) }

SetCommand(k, v, opts) ==
    Array(<<BulkString(T_SET), BulkString(k), BulkString(v)>> \o opts)
GetCommand(k) == Array(<<BulkString(T_GET), BulkString(k)>>)

Commands ==
    { SetCommand(K1, V1, o) : o \in OptionLists }
    \cup { SetCommand(K1, V2, o) :
             o \in {<<>>, Tok(T_NX), Tok(T_XX), Tok(T_KEEPTTL), PX1} }
    \cup { SetCommand(K1, v, <<>>) : v \in PlainValues }
    \cup { SetCommand(K2, V2, <<>>), SetCommand(K2, V2, Tok(T_XX)) }
    \cup { GetCommand(k) : k \in {K1, K2, K3} }
    \cup { Array(<<BulkString(<<103, 101, 116>>), BulkString(K1)>>),   \* get k
           Array(<<BulkString(<<115, 101, 116>>), BulkString(K2),
                   BulkString(V2)>>),                                  \* set k2 v
           Array(<<BulkString(T_SET), BulkString(K1)>>),               \* SET k
           Array(<<BulkString(T_GET)>>),                               \* GET
           Array(<<BulkString(T_PING)>>),
           Array(<<BulkString(T_COMMAND)>>),
           Array(<<BulkString(T_CLIENT), BulkString(K1)>>),
           Array(<<BulkString(T_ECHO), BulkString(V2)>>),
           Array(<<BulkString(T_CONFIG), BulkString(T_GET), BulkString(NAME_DIR)>>),
           Array(<<BulkString(T_CONFIG), BulkString(T_GET), BulkString(K1)>>),
           Array(<<BulkString(T_CONFIG), BulkString(T_GET), BulkString(T_DIR)>>),
           Array(<<BulkString(T_CONFIG), BulkString(T_GET),
                   BulkString(NAME_DBFILENAME)>>),
           Array(<<BulkString(<<99, 111, 110, 102, 105, 103>>),       \* config
                   BulkString(<<103, 101, 116>>),                      \* get
                   BulkString(<<68, 98, 70, 105, 108, 101, 78, 97, 109, 101>>)>>), \* DbFileName
           Array(<<BulkString(<<70, 79, 79>>)>>),                      \* FOO
           SimpleString(T_PING),
           SimpleString(<<70, 79, 79>>),                               \* +FOO
           BulkString(T_PING) }

\* several commands in one read buffer
Pipeline(terms) == [type |-> "Pipeline", data |-> terms]
PingCommand == Array(<<BulkString(T_PING)>>)
Pipelines ==
    { Pipeline(<<SetCommand(K1, V2, <<>>), GetCommand(K1)>>),
      Pipeline(<<GetCommand(K1), SetCommand(K1, V1, <<>>), GetCommand(K1)>>),
      Pipeline(<<PingCommand, SimpleString(T_PING), PingCommand>>),
      Pipeline(<<SetCommand(K1, V2, TimeOption(T_PX, <<97>>)), PingCommand>>),
      Pipeline(<<GetCommand(K1), SetCommand(K1, V2, Tok(T_NX) \o Tok(T_XX)),
                 SetCommand(K2, V2, <<>>)>>),
      Pipeline(<<Array(<<BulkString(T_CONFIG)>>), GetCommand(K1)>>),
      Pipeline(<<PingCommand, SimpleString(<<70, 79, 79>>), PingCommand>>),
      Pipeline(<<PingCommand, Array(<<BulkString(T_GET)>>), PingCommand>>) }

\* the other outcomes of the read: 0 bytes, an error that is not WouldBlock,
\* WouldBlock, and bytes that parse rejects
Closed == [type |-> "Closed", data |-> <<>>]
ReadError == [type |-> "ReadError", data |-> <<>>]
WouldBlock == [type |-> "WouldBlock", data |-> <<>>]
Invalid == [type |-> "Invalid", data |-> <<>>]

Reads == Commands \cup Pipelines \cup {Closed, ReadError, WouldBlock, Invalid}

-----------------------------------------------------------------------------
(* The state machine *)

\* what the last Server::run_once did; none has run yet
NoIteration ==
    [result |-> "none", n |-> 0, polled |-> <<>>, reported |-> <<>>,
     events |-> <<>>, accept |-> "none", accepted |-> <<>>, served |-> <<>>,
     at |-> 0, last_snapshot |-> 0]

\* Server::new: a listener and no connection
NewServer ==
    /\ connections = <<>>
    /\ arrivals = 0
    /\ iteration = NoIteration

\* the snapshot timer starts with the server at clock t
NewSnapshotTimer(t) ==
    /\ last_snapshot = t
    /\ snapshots = <<>>

\* the server after construction, before any event
InitServer ==
    /\ dbs = [i \in 0..(DEFAULT_DATABASES - 1) |-> EmptyMap]
    /\ now = 1
    /\ config = [dir |-> <<46, 47, 100, 97, 116, 97>>,                \* "./data"
                 dbfilename |-> <<100, 117, 109, 112, 46, 114, 100, 98>>] \* "dump.rdb"
    /\ conn = "open"
    /\ crashed = FALSE
    /\ cmd = Idle
    /\ reply = <<>>
    /\ pre_db = EmptyMap
    /\ store = NoStore
    /\ pre_store = NoStore
    /\ NewServer
    /\ NewSnapshotTimer(now)

Init == InitServer /\ subject = <<>> /\ outcome = <<>>

\* Server::run_once calls Connection::process_event for a readable
\* connection; read is what self.stream.read returned
ProcessEvent(read) ==
    /\ conn = "open"
    /\ ~crashed
    /\ cmd = Idle
    /\ IF read.type \in {"Closed", "ReadError", "WouldBlock"}
       THEN /\ conn' = IF read.type = "WouldBlock" THEN "open" ELSE "dropped"
            /\ reply' = <<>>
            /\ UNCHANGED <<dbs, crashed, store>>
       ELSE LET r == IF read.type = "Invalid" THEN Fatal(dbs[0])
                     ELSE process_input(Terms(read), 1, dbs[0], now, config, <<>>)
            IN  /\ dbs' = [dbs EXCEPT ![0] = r.db]
                /\ reply' = IF r.kind = "client_error"
                            THEN r.out \o write_error(r.msg) ELSE r.out
                /\ conn' = IF r.kind \in {"ok", "client_error"}
                           THEN "open" ELSE "dropped"
                /\ crashed' = (r.kind = "panic")
                /\ store' = IF read.type = "Invalid" THEN store
                            ELSE RememberAll(store, Terms(read), 1, dbs[0],
                                             now, config)
    /\ cmd' = read
    /\ pre_db' = dbs[0]
    /\ pre_store' = store
    /\ UNCHANGED <<now, config, subject, outcome>>
    /\ UNCHANGED loop_vars

\* Server::run_once is over and the next one waits in poll
Poll ==
    /\ ~crashed
    /\ cmd # Idle
    /\ cmd' = Idle
    /\ reply' = <<>>
    /\ pre_db' = dbs[0]
    /\ pre_store' = store
    /\ UNCHANGED <<dbs, now, config, conn, crashed, store, subject, outcome>>
    /\ UNCHANGED loop_vars

\* the system clock read by now() advances while the server waits
Tick ==
    /\ ~crashed
    /\ cmd = Idle
    /\ now < MaxClock
    /\ now' = now + 1
    /\ UNCHANGED <<dbs, config, conn, crashed, cmd, reply, pre_db, store, pre_store,
                   subject, outcome>>
    /\ UNCHANGED loop_vars

\* Server::accept_new_connections: the client connects again
Accept ==
    /\ ~crashed
    /\ cmd = Idle
    /\ conn = "dropped"
    /\ conn' = "open"
    /\ UNCHANGED <<dbs, now, config, crashed, cmd, reply, pre_db, store, pre_store,
                   subject, outcome>>
    /\ UNCHANGED loop_vars

Next ==
    \/ \E read \in Reads : ProcessEvent(read)
    \/ Poll
    \/ Tick
    \/ Accept

Spec == Init /\ [][Next]_vars

-----------------------------------------------------------------------------
(* What the specification says of a SET *)

\* the reply out is a bulk string whose payload is v and nothing else
IsBulkOf(out, v) ==
    LET d == nom_bulk_string(out) IN d.ok /\ d.data = v /\ d.rest = <<>>

SYNTAX_ERROR == ERR_PREFIX \o MSG_SYNTAX \o CRLF
NOT_AN_INTEGER == ERR_PREFIX \o MSG_NOT_INT \o CRLF

\* the key k exists at wall clock t: it has an entry whose expiry, if any,
\* is not strictly less than t
Exists(db, k, t) ==
    k \in DOMAIN db /\ ~(db[k].ttl.some /\ db[k].ttl.val < t)

\* a time-option argument: decimal digits only, within the u128 range
ValidArg(x) ==
    IsBulk(x) /\ IsDigits(x.data) /\ DecimalValue(x.data) <= U128_MAX

IsTimeToken(opts, i) == \E tok \in TimeTokens : IsToken(opts, i, tok)

\* the option list from element i on, read by the grammar of SET
BadShape == [ok |-> FALSE, nx |-> FALSE, xx |-> FALSE, keep |-> FALSE, times |-> 0]
RECURSIVE Shape(_, _)
Shape(opts, i) ==
    IF i > Len(opts)
    THEN [ok |-> TRUE, nx |-> FALSE, xx |-> FALSE, keep |-> FALSE, times |-> 0]
    ELSE IF IsTimeToken(opts, i)
    THEN IF i + 1 <= Len(opts) /\ ValidArg(opts[i + 1])
         THEN [Shape(opts, i + 2) EXCEPT !.times = @ + 1]
         ELSE BadShape
    ELSE IF IsToken(opts, i, T_NX) THEN [Shape(opts, i + 1) EXCEPT !.nx = TRUE]
    ELSE IF IsToken(opts, i, T_XX) THEN [Shape(opts, i + 1) EXCEPT !.xx = TRUE]
    ELSE IF IsToken(opts, i, T_KEEPTTL) THEN [Shape(opts, i + 1) EXCEPT !.keep = TRUE]
    ELSE BadShape

\* an option list the grammar accepts
WellFormed(opts) ==
    LET s == Shape(opts, 1) IN s.ok /\ ~(s.nx /\ s.xx) /\ s.times <= 1

\* the option list carries the token tok
Carries(opts, tok) == \E i \in 1..Len(opts) : IsToken(opts, i, tok)

\* how many elements of the option list are time options
TimeOptionCount(opts) == Cardinality({ i \in 1..Len(opts) : IsTimeToken(opts, i) })

\* the expiry a time option asks for at wall clock t
AskedExpiry(opts, i, t) ==
    LET n == DecimalValue(opts[i + 1].data) IN
    IF IsToken(opts, i, T_EX) THEN t + n * 1000
    ELSE IF IsToken(opts, i, T_PX) THEN t + n
    ELSE IF IsToken(opts, i, T_EXAT) THEN n * 1000
    ELSE n

-----------------------------------------------------------------------------
(* Properties *)

\* C1: a SET k v with no options replies +OK, and a GET k that follows it
\* replies a bulk string whose payload is exactly v, whatever bytes v holds.
C1_SetThenGet ==
    /\ (IsSet(cmd) /\ SetOpts(cmd) = <<>>) =>
          /\ reply = OK
          /\ store.form = "plain"
          /\ store.key = SetKey(cmd)
          /\ store.val = SetValue(cmd)
    /\ (IsGet(cmd) /\ pre_store.form = "plain" /\ GetKey(cmd) = pre_store.key) =>
          IsBulkOf(reply, pre_store.val)

\* a GET answers a value holding CR, LF, NUL and a high-bit byte
C1_BinaryValueRead ==
    /\ IsGet(cmd)
    /\ pre_store.form = "plain"
    /\ GetKey(cmd) = pre_store.key
    /\ pre_store.val = V1
    /\ IsBulkOf(reply, V1)

\* C2: after SET k v PX m stored at t0 and no later write of k, a GET k at
\* t < t0 + m replies v, a GET k at t > t0 + m replies null bulk, and after a
\* null reply k never reads as v again.
C2_PxExpiry ==
    (IsGet(cmd) /\ pre_store.form = "px" /\ GetKey(cmd) = pre_store.key) =>
        /\ now < pre_store.t0 + pre_store.m => IsBulkOf(reply, pre_store.val)
        /\ now > pre_store.t0 + pre_store.m => reply = NULL
        /\ pre_store.nulled => reply = NULL

\* a GET before the deadline t0 + m is answered null bulk
C2_NullBeforeDeadline ==
    /\ IsGet(cmd)
    /\ pre_store.form = "px"
    /\ GetKey(cmd) = pre_store.key
    /\ now < pre_store.t0 + pre_store.m
    /\ reply = NULL

\* C3: when k is absent, SET k v NX replies +OK; a second SET k v NX replies
\* null bulk; GET k replies v after each.
C3_SetNxTwice ==
    /\ (IsSet(cmd) /\ SetForm(cmd) = "nx" /\ ~Exists(pre_db, SetKey(cmd), now)) =>
          reply = OK
    /\ (IsSet(cmd) /\ SetForm(cmd) = "nx" /\ pre_store.form = "nx"
          /\ SetKey(cmd) = pre_store.key) =>
          reply = NULL
    /\ (IsGet(cmd) /\ pre_store.form = "nx" /\ GetKey(cmd) = pre_store.key) =>
          IsBulkOf(reply, pre_store.val)

\* a SET NX of a key whose entry has expired is refused
C3_NxRefusedOnExpired ==
    /\ IsSet(cmd)
    /\ SetForm(cmd) = "nx"
    /\ ~Exists(pre_db, SetKey(cmd), now)
    /\ reply = NULL

\* C4: a SET with NX on an existing key, or with XX on a missing key, replies
\* null bulk and leaves keyspace 0 as it was.
C4_RefusedSetFrame ==
    (/\ IsSet(cmd)
     /\ WellFormed(SetOpts(cmd))
     /\ \/ Shape(SetOpts(cmd), 1).nx /\ Exists(pre_db, SetKey(cmd), now)
        \/ Shape(SetOpts(cmd), 1).xx /\ ~Exists(pre_db, SetKey(cmd), now)) =>
        reply = NULL /\ dbs[0] = pre_db

\* a SET XX of a key whose entry has expired writes the keyspace
C4_XxWritesExpired ==
    /\ IsSet(cmd)
    /\ SetOpts(cmd) = Tok(T_XX)
    /\ ~Exists(pre_db, SetKey(cmd), now)
    /\ reply = OK
    /\ dbs[0] # pre_db

\* C5: on a key whose entry has an expiry strictly less than the wall clock,
\* SET k v NX stores v and replies +OK, and SET k v XX replies null bulk and
\* stores nothing.
C5_ExpiredIsNonexistent ==
    (/\ IsSet(cmd)
     /\ SetKey(cmd) \in DOMAIN pre_db
     /\ ~Exists(pre_db, SetKey(cmd), now)) =>
        /\ SetOpts(cmd) = Tok(T_NX) =>
              /\ reply = OK
              /\ SetKey(cmd) \in DOMAIN dbs[0]
              /\ dbs[0][SetKey(cmd)] = DBValue(SetValue(cmd), None)
        /\ SetOpts(cmd) = Tok(T_XX) =>
              /\ reply = NULL
              /\ dbs[0] \in {pre_db, MapRemove(pre_db, SetKey(cmd))}

\* a SET NX leaves an expired entry in place
C5_ExpiredEntryBlocksNx ==
    /\ IsSet(cmd)
    /\ SetOpts(cmd) = Tok(T_NX)
    /\ SetKey(cmd) \in DOMAIN pre_db
    /\ ~Exists(pre_db, SetKey(cmd), now)
    /\ reply = NULL
    /\ dbs[0] = pre_db

\* C6: SET k v KEEPTTL with no time option stores v with the expiry k had
\* before when k exists, and with no expiry when k does not exist.
C6_KeepTtl ==
    (IsSet(cmd) /\ Len(SetOpts(cmd)) = 1 /\ IsToken(SetOpts(cmd), 1, T_KEEPTTL)) =>
        /\ reply = OK
        /\ SetKey(cmd) \in DOMAIN dbs[0]
        /\ dbs[0][SetKey(cmd)] =
              DBValue(SetValue(cmd),
                      IF Exists(pre_db, SetKey(cmd), now)
                      THEN pre_db[SetKey(cmd)].ttl ELSE None)

\* a SET KEEPTTL of a key whose entry has expired stores the past expiry
C6_PastExpiryKept ==
    /\ IsSet(cmd)
    /\ SetOpts(cmd) = Tok(T_KEEPTTL)
    /\ SetKey(cmd) \in DOMAIN pre_db
    /\ ~Exists(pre_db, SetKey(cmd), now)
    /\ reply = OK
    /\ dbs[0][SetKey(cmd)].ttl = pre_db[SetKey(cmd)].ttl

\* C7: a SET with KEEPTTL and one time option, in either order, on an existing
\* key stores the expiry the time option asks for, unless it is refused as a
\* syntax error.
C7_ExplicitTimeWins ==
    LET opts == SetOpts(cmd)
        at == IF IsToken(opts, 1, T_KEEPTTL) THEN 2 ELSE 1
    IN  (/\ IsSet(cmd)
         /\ Len(opts) = 3
         /\ WellFormed(opts)
         /\ Shape(opts, 1).keep
         /\ Shape(opts, 1).times = 1
         /\ Exists(pre_db, SetKey(cmd), now)) =>
            \/ reply = SYNTAX_ERROR /\ dbs[0] = pre_db
            \/ /\ reply = OK
               /\ SetKey(cmd) \in DOMAIN dbs[0]
               /\ dbs[0][SetKey(cmd)].ttl = Some(AskedExpiry(opts, at, now))

\* a SET with KEEPTTL and PX on a key without expiry stores no expiry
C7_KeepTtlWins ==
    /\ IsSet(cmd)
    /\ SetOpts(cmd) = PX1 \o Tok(T_KEEPTTL)
    /\ SetKey(cmd) \in DOMAIN pre_db
    /\ pre_db[SetKey(cmd)].ttl = None
    /\ reply = OK
    /\ dbs[0][SetKey(cmd)].ttl = None

\* C8: a SET that carries both NX and XX, anywhere among its options, is
\* answered -ERR syntax error, leaves keyspace 0 as it was and keeps the
\* connection open.
C8_NxXxSyntaxError ==
    (IsSet(cmd) /\ Carries(SetOpts(cmd), T_NX) /\ Carries(SetOpts(cmd), T_XX)) =>
        reply = SYNTAX_ERROR /\ dbs[0] = pre_db /\ conn = "open"

\* a SET that carries NX and XX is answered +OK and written
C8_NxXxStored ==
    /\ IsSet(cmd)
    /\ Carries(SetOpts(cmd), T_NX)
    /\ Carries(SetOpts(cmd), T_XX)
    /\ reply = OK
    /\ dbs[0] # pre_db

\* C9: a SET that carries more than one time option is answered -ERR syntax
\* error and leaves keyspace 0 as it was; a SET with exactly one is accepted.
C9_OneTimeOption ==
    /\ (IsSet(cmd) /\ TimeOptionCount(SetOpts(cmd)) > 1) =>
          reply = SYNTAX_ERROR /\ dbs[0] = pre_db
    /\ (IsSet(cmd) /\ Len(SetOpts(cmd)) = 2 /\ WellFormed(SetOpts(cmd))
          /\ TimeOptionCount(SetOpts(cmd)) = 1) =>
          reply = OK

\* a SET that carries PX and EX is answered +OK and written
C9_TwoTimeOptionsStored ==
    /\ IsSet(cmd)
    /\ TimeOptionCount(SetOpts(cmd)) > 1
    /\ reply = OK
    /\ dbs[0] # pre_db

\* C10: the argument of a time option is accepted only when it is made of
\* ASCII digits alone and is in range; any other argument is answered -ERR
\* value is not an integer or out of range and the keyspace is unchanged.
C10_TimeArgument ==
    (/\ IsSet(cmd)
     /\ Len(SetOpts(cmd)) = 2
     /\ IsTimeToken(SetOpts(cmd), 1)
     /\ IsBulk(SetOpts(cmd)[2])
     /\ ~ValidArg(SetOpts(cmd)[2])) =>
        reply = NOT_AN_INTEGER /\ dbs[0] = pre_db

\* a time option whose argument starts with a plus sign is stored
C10_SignedArgumentStored ==
    /\ IsSet(cmd)
    /\ Len(SetOpts(cmd)) = 2
    /\ IsTimeToken(SetOpts(cmd), 1)
    /\ IsBulk(SetOpts(cmd)[2])
    /\ ~ValidArg(SetOpts(cmd)[2])
    /\ reply = OK

\* reading the option list from element i on, the first fault met is an
\* element that is no recognized option, or a time option without argument
RECURSIVE FirstFaultIsSyntax(_, _)
FirstFaultIsSyntax(opts, i) ==
    IF i > Len(opts) THEN FALSE
    ELSE IF IsTimeToken(opts, i)
    THEN IF i + 1 > Len(opts) THEN TRUE
         ELSE ValidArg(opts[i + 1]) /\ FirstFaultIsSyntax(opts, i + 2)
    ELSE IF \E f \in Flags : IsToken(opts, i, f)
    THEN FirstFaultIsSyntax(opts, i + 1)
    ELSE TRUE

\* C11: a SET with an element after the value that is neither a recognized
\* option nor the argument of a time option, whatever its RESP type and
\* position, or with a time option lacking its argument, is answered
\* -ERR syntax error and leaves the keyspace as it was.
C11_UnrecognizedElement ==
    (IsSet(cmd) /\ FirstFaultIsSyntax(SetOpts(cmd), 1)) =>
        reply = SYNTAX_ERROR /\ dbs[0] = pre_db

\* a SET followed by an element that is not a bulk string is stored
C11_NonBulkElementStored ==
    /\ IsSet(cmd)
    /\ SetOpts(cmd) = NonBulk
    /\ reply = OK
    /\ dbs[0] # pre_db

-----------------------------------------------------------------------------
(* What the specification says of a read buffer *)

\* the read returned bytes that parse turned into terms
IsData(read) ==
    read.type \in {"SimpleString", "SimpleError", "BulkString", "Array", "Pipeline"}

\* what process_input returned for the buffer just read
HandlerResult == process_input(Terms(cmd), 1, pre_db, now, config, <<>>)

RECURSIVE AllAnswered(_, _, _)
AllAnswered(terms, i, db) ==
    IF i > Len(terms) THEN TRUE
    ELSE LET r == process_term(terms[i], db, now, config) IN
         r.kind \in {"ok", "client_error"} /\ AllAnswered(terms, i + 1, r.db)

\* the reply to each term from i on, one after the other
RECURSIVE RepliesInOrder(_, _, _)
RepliesInOrder(terms, i, db) ==
    IF i > Len(terms) THEN <<>>
    ELSE LET r == process_term(terms[i], db, now, config) IN
         (IF r.kind = "client_error" THEN write_error(r.msg) ELSE r.out)
            \o RepliesInOrder(terms, i + 1, r.db)

\* C13: the n commands of one read buffer are all processed in order and n
\* replies are written, the i-th to the i-th command, also when one of them
\* is answered with an error line.
C13_PipelineReplies ==
    (cmd.type = "Pipeline" /\ AllAnswered(cmd.data, 1, pre_db)) =>
        reply = RepliesInOrder(cmd.data, 1, pre_db)

\* after an error line nothing more of the buffer is answered
C13_RestOfBufferDropped ==
    /\ cmd = Pipeline(<<SetCommand(K1, V2, TimeOption(T_PX, <<97>>)), PingCommand>>)
    /\ reply = NOT_AN_INTEGER

-----------------------------------------------------------------------------
(* The RESP parser applied to a buffer *)

\* the wire form of a term
RECURSIVE Wire(_)
RECURSIVE WireAll(_, _)
WireAll(terms, i) ==
    IF i > Len(terms) THEN <<>> ELSE Wire(terms[i]) \o WireAll(terms, i + 1)
Wire(term) ==
    CASE term.type = "SimpleString" -> <<43>> \o term.data \o CRLF
      [] term.type = "SimpleError" -> <<45>> \o term.data \o CRLF
      [] term.type = "BulkString" ->
            <<36>> \o ToDecimal(Len(term.data)) \o CRLF \o term.data \o CRLF
      [] OTHER ->
            <<42>> \o ToDecimal(Len(term.data)) \o CRLF \o WireAll(term.data, 1)

B_OK == <<79, 75>>                          \* "OK"
B_BINARY == <<97, 13, 10, 98, 0, 255>>      \* "a\r\nb\0\xff"
B_LIKE_TERM == <<43, 79, 75, 13, 10>>       \* "+OK\r\n" as a payload
B_ERR_X == <<69, 82, 82, 32, 120>>          \* "ERR x"

WellFormedTerms ==
    { SimpleString(<<>>), SimpleString(B_OK), SimpleError(B_ERR_X),
      BulkString(<<>>), BulkString(B_BINARY), BulkString(B_LIKE_TERM),
      Array(<<>>),
      Array(<<BulkString(T_GET), BulkString(K1)>>),
      Array(<<Array(<<SimpleString(B_OK), Array(<<>>)>>), BulkString(B_BINARY),
              SimpleError(<<>>)>>),
      Array(<<Array(<<Array(<<Array(<<>>)>>)>>)>>) }

WellFormedSequences ==
    {<<>>}
    \cup { <<a>> : a \in WellFormedTerms }
    \cup { <<a, b>> : a \in WellFormedTerms, b \in WellFormedTerms }
    \cup { <<SimpleString(B_OK), a, BulkString(B_BINARY)>> : a \in WellFormedTerms }

Buffer(kind, bytes, terms) == [kind |-> kind, bytes |-> bytes, terms |-> terms]

\* what the reply encoders write, with the term each stands for
EncoderBuffers ==
    { Buffer("encoder", OK, <<SimpleString(B_OK)>>),
      Buffer("encoder", PONG, <<SimpleString(<<80, 79, 78, 71>>)>>),
      Buffer("encoder", EMPTY_ARRAY, <<Array(<<>>)>>),
      Buffer("encoder", NULL, <<>>),
      Buffer("encoder", write_array(<<NAME_DIR, B_BINARY>>),
             <<Array(<<BulkString(NAME_DIR), BulkString(B_BINARY)>>)>>) }
    \cup { Buffer("encoder", write_bulk_string(v), <<BulkString(v)>>) :
             v \in {<<>>, V2, B_BINARY, B_LIKE_TERM} }
    \cup { Buffer("encoder", write_error(m), <<SimpleError(ERR_PREFIX_TEXT \o m)>>) :
             m \in {MSG_SYNTAX, MSG_NOT_INT, MSG_SET_ARGS} }
    \cup { Buffer("encoder", handle_echo(<<BulkString(v)>>, EmptyMap).out,
                  <<SimpleString(v)>>) :
             v \in {<<>>, V2, B_BINARY} }

\* buffers with a fault; the comment gives the text
MalformedBytes ==
    { <<105, 110, 118, 97, 108, 105, 100>>,                  \* "invalid"
      <<33, 120, 13, 10>>,                                   \* "!x\r\n"
      <<58, 49, 13, 10>>,                                    \* ":1\r\n"
      <<43, 79, 75, 13, 10, 105, 110, 118>>,                 \* "+OK\r\ninv"
      <<36, 120, 13, 10, 13, 10>>,                           \* "$x\r\n\r\n"
      <<36, 49, 120, 13, 10, 97, 13, 10>>,                   \* "$1x\r\na\r\n"
      <<36, 45, 50, 13, 10>>,                                \* "$-2\r\n"
      <<36, 13, 10, 13, 10>>,                                \* "$\r\n\r\n"
      <<42, 120, 13, 10>>,                                   \* "*x\r\n"
      <<42, 49, 32, 13, 10, 43, 13, 10>>,                    \* "*1 \r\n+\r\n"
      <<36>> \o ToDecimal(USIZE_MAX + 1) \o CRLF \o <<97>> \o CRLF,
      <<42>> \o ToDecimal(USIZE_MAX + 1) \o CRLF,
      <<36, 57, 57, 57, 57, 57, 13, 10, 97, 13, 10>>,        \* "$99999\r\na\r\n"
      <<42, 57, 57, 57, 57, 57, 13, 10>>,                    \* "*99999\r\n"
      <<36, 53, 13, 10, 97, 98, 99, 13, 10>>,                \* "$5\r\nabc\r\n"
      <<36, 51, 13, 10, 97, 98>>,                            \* "$3\r\nab"
      <<36, 51, 13, 10, 97, 98, 99>>,                        \* "$3\r\nabc"
      <<36, 51, 13, 10, 97, 98, 99, 120, 121>>,              \* "$3\r\nabcxy"
      <<36, 49, 13, 97, 13, 10>>,                            \* "$1\ra\r\n"
      <<43, 79, 75>>,                                        \* "+OK"
      <<43, 79, 75, 13>>,                                    \* "+OK\r"
      <<45, 69, 82, 82, 10>>,                                \* "-ERR\n"
      <<42, 49, 13, 10, 36, 49, 13, 10, 97>>,                \* "*1\r\n$1\r\na"
      <<36, 49, 13, 10, 97, 13, 10, 36, 120, 13, 10>>,       \* "$1\r\na\r\n$x\r\n"
      <<42, 48, 13, 10, 43, 79, 75, 13, 10, 63>> }           \* "*0\r\n+OK\r\n?"

\* lines holding a CR or an LF that is no part of a CRLF, ended by CRLF
LoneBytes ==
    { <<43, 97, 13, 98, 13, 10>>,                            \* "+a\rb\r\n"
      <<43, 97, 10, 98, 13, 10>>,                            \* "+a\nb\r\n"
      <<43, 10, 13, 13, 10>>,                                \* "+\n\r\r\n"
      <<45, 69, 13, 32, 120, 13, 10>>,                       \* "-E\r x\r\n"
      <<45, 69, 82, 82, 10, 13, 10>>,                        \* "-ERR\n\r\n"
      <<42, 49, 13, 10, 43, 97, 10, 13, 10>> }               \* "*1\r\n+a\n\r\n"

ParseBuffers ==
    { Buffer("well-formed", WireAll(ts, 1), ts) : ts \in WellFormedSequences }
    \cup EncoderBuffers
    \cup { Buffer("malformed", b, <<>>) : b \in MalformedBytes }
    \cup { Buffer("lone", b, <<>>) : b \in LoneBytes }

NotApplied == [by |-> "none", kind |-> "none", terms |-> <<>>]

InitParse == InitServer /\ subject \in ParseBuffers /\ outcome = NotApplied

\* parsers::resp_data::parse applied to the buffer
Parse ==
    /\ outcome = NotApplied
    /\ outcome' = [by |-> "parse", kind |-> parse(subject.bytes).kind,
                   terms |-> parse(subject.bytes).terms]
    /\ UNCHANGED <<dbs, now, config, conn, crashed, cmd, reply, pre_db, store,
                   pre_store, subject>>
    /\ UNCHANGED loop_vars

\* parse::parse_input applied to the buffer
ParseInput ==
    /\ outcome = NotApplied
    /\ outcome' = [by |-> "parse_input", kind |-> parse_input(subject.bytes).kind,
                   terms |-> parse_input(subject.bytes).terms]
    /\ UNCHANGED <<dbs, now, config, conn, crashed, cmd, reply, pre_db, store,
                   pre_store, subject>>
    /\ UNCHANGED loop_vars

NextParse == Parse \/ ParseInput

SpecParse == InitParse /\ [][NextParse]_vars

\* C14: parse applied to the concatenation of well-formed terms T1..Tn
\* returns exactly <<T1, ..., Tn>>, and the empty sequence on the empty buffer.
C14_ParseWellFormed ==
    (subject.kind = "well-formed" /\ outcome.by # "none") =>
        outcome.kind = "Ok" /\ outcome.terms = subject.terms

\* three terms, among them a nested array holding CR, LF, NUL and a high-bit
\* byte, come back as they were
C14_NestedArrayParsed ==
    /\ subject.kind = "well-formed"
    /\ Len(subject.terms) = 3
    /\ subject.terms[2].type = "Array"
    /\ Len(subject.terms[2].data) = 3
    /\ outcome.by = "parse"
    /\ outcome.kind = "Ok"
    /\ outcome.terms = subject.terms

\* C15: every byte sequence the reply encoders write is accepted by parse and
\* yields the term it stands for.
C15_EncoderOutputParses ==
    (subject.kind = "encoder" /\ outcome.by = "parse") =>
        /\ outcome.kind = "Ok"
        /\ subject.bytes # NULL => outcome.terms = subject.terms

\* parse rejects the null bulk reply
C15_NullBulkRejected ==
    /\ subject.kind = "encoder"
    /\ subject.bytes = NULL
    /\ outcome.by = "parse"
    /\ outcome.kind = "InvalidInput"

\* C16: on a buffer with a fault at any term position the parse entry point
\* returns InvalidInput and no terms.
C16_InvalidInput ==
    (subject.kind = "malformed" /\ outcome.by # "none") =>
        outcome.kind = "InvalidInput" /\ outcome.terms = <<>>

\* parse_input answers a faulty buffer with NomError
C16_NomErrorReturned ==
    /\ subject.kind = "malformed"
    /\ outcome.by = "parse_input"
    /\ outcome.kind = "NomError"

\* no simple string and no simple error of the term, at any depth, holds a
\* CR or an LF
RECURSIVE LinesClean(_)
LinesClean(term) ==
    CASE term.type \in {"SimpleString", "SimpleError"} ->
           \A i \in 1..Len(term.data) : term.data[i] \notin {13, 10}
      [] term.type = "Array" ->
           \A i \in 1..Len(term.data) : LinesClean(term.data[i])
      [] OTHER -> TRUE

\* C34: the payload of every simple string and simple error the parser
\* returns holds neither CR nor LF; a line with a CR or an LF that is no part
\* of its closing CRLF is rejected.
C34_NoCrLfInLines ==
    outcome.by # "none" =>
        /\ \A i \in 1..Len(outcome.terms) : LinesClean(outcome.terms[i])
        /\ subject.kind = "lone" => outcome.kind # "Ok"

\* parse returns a simple string whose payload holds a CR
C34_LoneCrReturned ==
    /\ subject.bytes = <<43, 97, 13, 98, 13, 10>>
    /\ outcome.by = "parse"
    /\ outcome.kind = "Ok"
    /\ outcome.terms = <<SimpleString(<<97, 13, 98>>)>>

-----------------------------------------------------------------------------
(* The RDB size encoding (src/src/parsers/rdb.rs) *)

\* The integers of this section are plain naturals.  u8, u16, u32 and u64 are
\* only widened (`as usize`, `as u128`): usize has 64 bits on the target the
\* decoder's tests are written for (the literal 4_294_967_296 of
\* tests::test_nom_size_encoding_64_bits), so no conversion loses a bit.

\* what a nom parser returns: Ok((rest, value)), Err(..), or it panics
NomOk(rest, value) == [kind |-> "Ok", rest |-> rest, value |-> value]
NomErr == [kind |-> "Err", rest |-> <<>>, value |-> <<>>]
NomPanic == [kind |-> "panic", rest |-> <<>>, value |-> <<>>]

\* take(n): the first n bytes, an error when fewer are left
take(n, input) ==
    IF Len(input) >= n
    THEN NomOk(SubSeq(input, n + 1, Len(input)), SubSeq(input, 1, n))
    ELSE NomErr

\* uN::from_be_bytes: the first byte is the most significant
RECURSIVE from_be_bytes_from(_, _, _)
from_be_bytes_from(bytes, i, acc) ==
    IF i > Len(bytes) THEN acc
    ELSE from_be_bytes_from(bytes, i + 1, acc * 256 + bytes[i])

\* the least significant byte alone
from_be_bytes_low_byte(bytes) == bytes[Len(bytes)]

from_be_bytes(bytes) == from_be_bytes_from(bytes, 1, 0)

\* uN::from_le_bytes: the first byte is the least significant
from_le_bytes(bytes) ==
    from_be_bytes([i \in 1..Len(bytes) |-> bytes[Len(bytes) + 1 - i]])

\* enum EncodedLength
EncodedLength(variant, value) == [variant |-> variant, value |-> value]

\* the size decoder
nom_size_encoding(input) ==
    LET first == take(1, input) IN
    IF first.kind # "Ok" THEN NomErr
    ELSE
        LET first_byte == first.value[1]
            encoding_type == first_byte \div 64        \* first_byte[0] >> 6
            first_byte_data == first_byte % 64         \* & 0b0011_1111
            rest == first.rest
        IN  CASE encoding_type = 0 ->
                    NomOk(rest, EncodedLength("Length", first_byte_data))
              [] encoding_type = 1 ->
                    LET second_byte == take(1, rest) IN
                    IF second_byte.kind # "Ok" THEN NomErr
                    ELSE NomOk(second_byte.rest,
                               EncodedLength("Length",
                                   from_be_bytes(<<first_byte_data,
                                                   second_byte.value[1]>>)))
              [] encoding_type = 2 /\ first_byte_data = 0 ->
                    LET bytes == take(4, rest) IN
                    IF bytes.kind # "Ok" THEN NomErr
                    ELSE NomOk(bytes.rest,
                               EncodedLength("Length", from_be_bytes(bytes.value)))
              [] encoding_type = 2 /\ first_byte_data = 1 ->
                    LET bytes == take(8, rest) IN
                    IF bytes.kind # "Ok" THEN NomErr
                    ELSE NomOk(bytes.rest,
                               EncodedLength("Length", from_be_bytes(bytes.value)))
              [] encoding_type = 3 /\ first_byte_data = 0 ->
                    LET bytes == take(1, rest) IN
                    IF bytes.kind # "Ok" THEN NomErr
                    ELSE NomOk(bytes.rest,
                               EncodedLength("U8", from_le_bytes(bytes.value)))
              [] encoding_type = 3 /\ first_byte_data = 1 ->
                    LET bytes == take(2, rest) IN
                    IF bytes.kind # "Ok" THEN NomErr
                    ELSE NomOk(bytes.rest,
                               EncodedLength("U16", from_le_bytes(bytes.value)))
              [] encoding_type = 3 /\ first_byte_data = 2 ->
                    LET bytes == take(4, rest) IN
                    IF bytes.kind # "Ok" THEN NomErr
                    ELSE NomOk(bytes.rest,
                               EncodedLength("U32", from_le_bytes(bytes.value)))
              [] encoding_type = 3 /\ first_byte_data = 3 ->
                    NomPanic                           \* unimplemented!()
              [] OTHER -> NomPanic                     \* unreachable!()

\* enum EncodedString
EncodedString(variant, value) == [variant |-> variant, value |-> value]

\* the match on the decoded length of nom_size_encoded_string
size_encoded_string_of(encoded_length) ==
    IF encoded_length.kind # "Ok" THEN encoded_length
    ELSE IF encoded_length.value.variant = "Length"
    THEN IF Len(encoded_length.rest) >= encoded_length.value.value
         THEN NomOk(SubSeq(encoded_length.rest, encoded_length.value.value + 1,
                           Len(encoded_length.rest)),
                    EncodedString("String",
                                  SubSeq(encoded_length.rest, 1,
                                         encoded_length.value.value)))
         ELSE NomErr
    ELSE NomOk(encoded_length.rest,
               EncodedString(encoded_length.value.variant,
                             encoded_length.value.value))

nom_size_encoded_string(input) ==
    size_encoded_string_of(nom_size_encoding(input))

-----------------------------------------------------------------------------
(* The snapshot loader (src/src/database.rs, src/src/parsers/rdb.rs) *)

REDIS == <<82, 69, 68, 73, 83>>       \* "REDIS"

\* str::parse::<u16>: decimal digits, an optional leading '+', at most 65535
parse_u16(v) ==
    LET digits == IF Len(v) > 0 /\ v[1] = 43 THEN SubSeq(v, 2, Len(v)) ELSE v IN
    IF IsDigits(digits) /\ Len(digits) <= 4
    THEN Some(DecimalValue(digits))
    ELSE None

\* tag(b"REDIS"), then four bytes parsed as the version; unwrap() panics on
\* a version that is not a number
nom_rdb_header(input) ==
    IF Len(input) < 5 \/ SubSeq(input, 1, 5) # REDIS THEN NomErr
    ELSE LET v == take(4, SubSeq(input, 6, Len(input))) IN
         IF v.kind # "Ok" THEN NomErr
         ELSE IF ~parse_u16(v.value).some THEN NomPanic
         ELSE NomOk(v.rest, parse_u16(v.value).val)

nom_rdb_op_code(input) ==
    IF input = <<>> THEN NomErr
    ELSE CASE input[1] = 250 -> NomOk(Drop(input, 2), "AUX")
           [] input[1] = 251 -> NomOk(Drop(input, 2), "RESIZEDB")
           [] input[1] = 252 -> NomOk(Drop(input, 2), "EXPIRETIMEMS")
           [] input[1] = 253 -> NomOk(Drop(input, 2), "EXPIRETIME")
           [] input[1] = 254 -> NomOk(Drop(input, 2), "SELECTDB")
           [] input[1] = 255 -> NomOk(Drop(input, 2), "EOF")
           [] OTHER -> NomErr

nom_value_type(input) ==
    IF input = <<>> THEN NomErr
    ELSE CASE input[1] = 0 -> NomOk(Drop(input, 2), "String")
           [] input[1] = 1 -> NomOk(Drop(input, 2), "List")
           [] input[1] = 2 -> NomOk(Drop(input, 2), "Set")
           [] input[1] = 3 -> NomOk(Drop(input, 2), "SortedSet")
           [] input[1] = 4 -> NomOk(Drop(input, 2), "Hash")
           [] input[1] = 9 -> NomOk(Drop(input, 2), "Zipmap")
           [] input[1] = 10 -> NomOk(Drop(input, 2), "Ziplist")
           [] input[1] = 11 -> NomOk(Drop(input, 2), "Intset")
           [] input[1] = 12 -> NomOk(Drop(input, 2), "SortedSetInZiplist")
           [] input[1] = 13 -> NomOk(Drop(input, 2), "HashmapInZiplist")
           [] input[1] = 14 -> NomOk(Drop(input, 2), "ListInQuicklist")
           [] OTHER -> NomErr

\* enum ParsedOpCodeOrValueType
ParsedOpCodeOrValueType(tag, of) == [tag |-> tag, of |-> of]

nom_opcode_or_value_type(input) ==
    LET value_type == nom_value_type(input)
        op_code == nom_rdb_op_code(input)
    IN  IF value_type.kind = "Ok"
        THEN NomOk(value_type.rest,
                   ParsedOpCodeOrValueType("ValueType", value_type.value))
        ELSE IF op_code.kind = "Ok"
        THEN NomOk(op_code.rest, ParsedOpCodeOrValueType("OpCode", op_code.value))
        ELSE NomErr

nom_le_int(input) ==
    LET bytes == take(4, input) IN
    IF bytes.kind # "Ok" THEN NomErr
    ELSE NomOk(bytes.rest, from_le_bytes(bytes.value))

nom_le_long(input) ==
    LET bytes == take(8, input) IN
    IF bytes.kind # "Ok" THEN NomErr
    ELSE NomOk(bytes.rest, from_le_bytes(bytes.value))

\* the value of a metadata section whose key has been parsed
metadata_value_of(key, value) ==
    IF value.kind # "Ok" THEN value
    ELSE NomOk(value.rest, <<key.value, value.value>>)

metadata_key_of(key) ==
    IF key.kind # "Ok" THEN key
    ELSE metadata_value_of(key, nom_size_encoded_string(key.rest))

nom_metadata_section(input) == metadata_key_of(nom_size_encoded_string(input))

\* where load_rdb stands when it leaves: Ok(()), Err(..) or a panic, and the
\* DATABASES and EXPIRY it leaves behind
Loaded(kind, databases, expiries) ==
    [kind |-> kind, DATABASES |-> databases, EXPIRY |-> expiries]

\* what `?` does with a nom result that is not Ok: Err returns the error, a
\* panic inside the parser unwinds through load_rdb
Left(r, databases, expiries) ==
    Loaded(IF r.kind = "panic" THEN "panic" ELSE "Err", databases, expiries)

\* Vec::get_mut(db_num) is Some
InRange(db_num) == db_num < DEFAULT_DATABASES

\* the local variables of load_rdb's loop
Locals(db_num, key_expiry, databases, expiries, current_timestamp) ==
    [db_num |-> db_num, key_expiry |-> key_expiry, databases |-> databases,
     expiries |-> expiries, current_timestamp |-> current_timestamp]

\* the record loop of load_rdb, from `input` on
RECURSIVE load_records(_, _)

\* OpCode::SELECTDB, the index decoded
op_selectdb(encoded_db, l) ==
    IF encoded_db.kind # "Ok" THEN Left(encoded_db, l.databases, l.expiries)
    ELSE IF encoded_db.value.variant = "Length"
    THEN load_records(encoded_db.rest, [l EXCEPT !.db_num = encoded_db.value.value])
    ELSE Loaded("Ok", l.databases, l.expiries)                   \* break

\* OpCode::RESIZEDB, the second size decoded
op_resizedb_expiry(expiry_hash_table_size, l) ==
    IF expiry_hash_table_size.kind # "Ok"
    THEN Left(expiry_hash_table_size, l.databases, l.expiries)
    ELSE load_records(expiry_hash_table_size.rest, l)

\* OpCode::RESIZEDB, the first size decoded
op_resizedb(hash_table_size, l) ==
    IF hash_table_size.kind # "Ok"
    THEN Left(hash_table_size, l.databases, l.expiries)
    ELSE IF ~InRange(l.db_num)
    THEN Loaded("panic", l.databases, l.expiries)                \* unwrap()
    ELSE op_resizedb_expiry(nom_size_encoding(hash_table_size.rest), l)

\* OpCode::EXPIRETIME (factor 1000) and OpCode::EXPIRETIMEMS (factor 1), the
\* integer read
op_expiretime(expiry, factor, l) ==
    IF expiry.kind # "Ok" THEN Left(expiry, l.databases, l.expiries)
    ELSE load_records(expiry.rest,
                      [l EXCEPT !.key_expiry = Some(expiry.value * factor)])

\* OpCode::AUX, the section parsed
op_aux(section, l) ==
    IF section.kind # "Ok"                                       \* unwrap()
    THEN Loaded("panic", l.databases, l.expiries)
    ELSE IF section.value[1].variant # "String"                  \* unimplemented!()
    THEN Loaded("panic", l.databases, l.expiries)
    ELSE load_records(section.rest, l)

\* ValueTypeEncoding::String, key and value parsed
value_string_set(key, value, l) ==
    IF value.kind # "Ok" THEN Left(value, l.databases, l.expiries)
    ELSE IF key.value.variant # "String" \/ value.value.variant # "String"
    THEN Loaded("panic", l.databases, l.expiries)                \* unimplemented!()
    ELSE IF l.key_expiry.some /\ l.key_expiry.val < l.current_timestamp
    THEN load_records(value.rest, l)                             \* continue
    ELSE IF ~InRange(l.db_num)
    THEN Loaded("panic", l.databases, l.expiries)                \* unwrap()
    ELSE load_records(
             value.rest,
             [l EXCEPT
                !.databases[l.db_num] =
                    MapInsert(@, key.value.value, value.value.value),
                !.expiries[l.db_num] =
                    IF l.key_expiry.some
                    THEN MapInsert(@, key.value.value, l.key_expiry.val)
                    ELSE @])

\* ValueTypeEncoding::String, the key parsed
value_string(key, l) ==
    IF key.kind # "Ok" THEN Left(key, l.databases, l.expiries)
    ELSE value_string_set(key, nom_size_encoded_string(key.rest), l)

\* the match on what nom_opcode_or_value_type returned
opcode_or_value_type(head, l) ==
    IF head.kind # "Ok" THEN Loaded("Ok", l.databases, l.expiries) \* Err(e) => break
    ELSE IF head.value.tag = "OpCode" THEN
        CASE head.value.of = "EOF" -> Loaded("Ok", l.databases, l.expiries)
          [] head.value.of = "SELECTDB" ->
                op_selectdb(nom_size_encoding(head.rest), l)
          [] head.value.of = "RESIZEDB" ->
                op_resizedb(nom_size_encoding(head.rest), l)
          [] head.value.of = "EXPIRETIME" ->
                op_expiretime(nom_le_int(head.rest), 1000, l)
          [] head.value.of = "EXPIRETIMEMS" ->
                op_expiretime(nom_le_long(head.rest), 1, l)
          [] OTHER -> op_aux(nom_metadata_section(head.rest), l)
    ELSE IF head.value.of = "String"
    THEN value_string(nom_size_encoded_string(head.rest), l)
    ELSE Loaded("panic", l.databases, l.expiries)                \* unimplemented!()

load_records(input, l) == opcode_or_value_type(nom_opcode_or_value_type(input), l)

\* Database::clear on each of the keyspaces
clear(maps) == [i \in DOMAIN maps |-> EmptyMap]

\* the file at `path`: its bytes, or NoFile when it cannot be opened
NoFile == [exists |-> FALSE, bytes |-> <<>>]
File(bytes) == [exists |-> TRUE, bytes |-> bytes]

\* load_rdb(path), called at wall-clock time current_timestamp
load_rdb(file, databases, expiries, current_timestamp) ==
    LET dbs_cleared == clear(databases)
        expiries_cleared == clear(expiries)
    IN  IF ~file.exists THEN Loaded("Err", dbs_cleared, expiries_cleared)
        ELSE LET header == nom_rdb_header(file.bytes) IN
             IF header.kind # "Ok"
             THEN Left(header, dbs_cleared, expiries_cleared)
             ELSE load_records(header.rest,
                               Locals(0, None, dbs_cleared, expiries_cleared,
                                      current_timestamp))

-----------------------------------------------------------------------------
(* The size decoder applied to a buffer *)

\* bytes that follow the encoded size in the buffer
SizeTails == { <<>>, <<171>>, <<1, 2>> }

\* one buffer start for each form of the encoding
SizeHeads ==
    { <<b>> : b \in {0, 10, 13, 63} }                          \* 00xxxxxx
    \cup { <<b, c>> : b \in {64, 66, 127}, c \in {0, 188, 255} }  \* 01xxxxxx yy
    \cup { <<128>> \o w : w \in { <<0, 0, 66, 104>>, <<0, 0, 0, 0>>,
                                  <<1, 2, 3, 4>>, <<127, 255, 255, 255>> } }
    \cup { <<129>> \o w : w \in { <<0, 0, 0, 0, 0, 0, 66, 104>>,
                                  <<0, 0, 0, 0, 1, 2, 3, 4>>,
                                  <<0, 0, 0, 0, 127, 255, 255, 255>> } }
    \cup { <<192, b>> : b \in {0, 123, 255} }                   \* 0xC0
    \cup { <<193>> \o w : w \in { <<57, 48>>, <<1, 0>>, <<255, 255>> } }
    \cup { <<194>> \o w : w \in { <<135, 214, 18, 0>>, <<1, 2, 3, 4>>,
                                  <<255, 255, 255, 127>> } }
    \cup { <<195>>, <<195, 1>> }                                \* 0xC3, LZF

\* buffers that end inside a form, and first bytes of no form
SizeFragments ==
    { <<>>, <<64>>, <<128, 0, 0, 66>>, <<129, 0, 0, 0, 0, 0, 0, 66>>, <<192>>,
      <<193, 57>>, <<194, 1, 2, 3>>, <<130, 0, 0, 0, 1>>, <<191>>, <<196, 1>> }

\* each of the 256 first bytes, alone and followed by eight bytes
FirstBytes ==
    { <<b>> \o tail : b \in 0..255, tail \in { <<>>, <<0, 0, 0, 0, 0, 0, 0, 9>> } }

SizeBuffers ==
    { [kind |-> "size", bytes |-> head \o tail] :
        head \in SizeHeads, tail \in SizeTails }
    \cup { [kind |-> "size", bytes |-> b] : b \in SizeFragments \cup FirstBytes }

InitSize == InitServer /\ subject \in SizeBuffers /\ outcome = NotApplied

\* rdb::nom_size_encoding applied to the buffer
SizeEncoding ==
    /\ outcome = NotApplied
    /\ outcome' = [by |-> "nom_size_encoding",
                   result |-> nom_size_encoding(subject.bytes)]
    /\ UNCHANGED <<dbs, now, config, conn, crashed, cmd, reply, pre_db, store,
                   pre_store, subject>>
    /\ UNCHANGED loop_vars

\* rdb::nom_size_encoded_string applied to the buffer
SizeEncodedString ==
    /\ outcome = NotApplied
    /\ outcome' = [by |-> "nom_size_encoded_string",
                   result |-> nom_size_encoded_string(subject.bytes)]
    /\ UNCHANGED <<dbs, now, config, conn, crashed, cmd, reply, pre_db, store,
                   pre_store, subject>>
    /\ UNCHANGED loop_vars

NextSize == SizeEncoding \/ SizeEncodedString

SpecSize == InitSize /\ [][NextSize]_vars

\* bytes i..j read as one number, most significant byte first
RECURSIVE BigEndian(_, _, _)
BigEndian(bytes, i, j) ==
    IF i > j THEN 0
    ELSE (IF bytes[i] = 0 THEN 0 ELSE bytes[i] * Pow2(8 * (j - i)))
         + BigEndian(bytes, i + 1, j)

\* bytes i..j read as one number, least significant byte first
RECURSIVE LittleEndian(_, _, _)
LittleEndian(bytes, i, j) ==
    IF i > j THEN 0
    ELSE (IF bytes[j] = 0 THEN 0 ELSE bytes[j] * Pow2(8 * (j - i)))
         + LittleEndian(bytes, i, j - 1)

\* the variant, the value and the number of bytes the size encoding states
\* for a buffer, by its first byte
Stated(variant, value, consumed) ==
    [variant |-> variant, value |-> value, consumed |-> consumed]

NoForm == Stated("none", 0, 0)

StatedSize(bytes) ==
    IF bytes = <<>> THEN NoForm
    ELSE CASE bytes[1] \in 0..63 -> Stated("Length", bytes[1], 1)
           [] bytes[1] \in 64..127 /\ Len(bytes) >= 2 ->
                 Stated("Length", (bytes[1] - 64) * 256 + bytes[2], 2)
           [] bytes[1] = 128 /\ Len(bytes) >= 5 ->
                 Stated("Length", BigEndian(bytes, 2, 5), 5)
           [] bytes[1] = 129 /\ Len(bytes) >= 9 ->
                 Stated("Length", BigEndian(bytes, 2, 9), 9)
           [] bytes[1] = 192 /\ Len(bytes) >= 2 -> Stated("U8", bytes[2], 2)
           [] bytes[1] = 193 /\ Len(bytes) >= 3 ->
                 Stated("U16", LittleEndian(bytes, 2, 3), 3)
           [] bytes[1] = 194 /\ Len(bytes) >= 5 ->
                 Stated("U32", LittleEndian(bytes, 2, 5), 5)
           [] bytes[1] = 195 -> Stated("LZF", 0, 0)
           [] OTHER -> NoForm

\* C17: on an input of one of the eight forms the size decoder returns the
\* stated variant and value and consumes exactly the stated bytes; the LZF
\* form is rejected.
C17_SizeEncoding ==
    outcome.by = "nom_size_encoding" =>
        LET stated == StatedSize(subject.bytes)
            result == outcome.result
        IN  /\ stated.variant \in {"Length", "U8", "U16", "U32"} =>
                /\ result.kind = "Ok"
                /\ result.value.variant = stated.variant
                /\ result.value.value = stated.value
                /\ result.rest = SubSeq(subject.bytes, stated.consumed + 1,
                                        Len(subject.bytes))
            /\ stated.variant = "LZF" => result.kind # "Ok"

\* 0xC1 0x39 0x30 followed by two more bytes: U16(12345), the two bytes left
C17_LittleEndianU16 ==
    /\ subject.bytes = <<193, 57, 48, 1, 2>>
    /\ outcome.by = "nom_size_encoding"
    /\ outcome.result = NomOk(<<1, 2>>, EncodedLength("U16", 12345))

\* C35: the size decoder is total: on every first byte, followed by any
\* bytes or by too few, it returns a decoded value or a parse error; the LZF
\* form 0xC3 and the first bytes 0x82..0xBF and 0xC4..0xFF are rejected with
\* an error.
C35_SizeDecoderTotal ==
    outcome.by = "nom_size_encoding" =>
        /\ outcome.result.kind \in {"Ok", "Err"}
        /\ (/\ Len(subject.bytes) >= 1
            /\ subject.bytes[1] \in (130..191) \cup (195..255)) =>
              outcome.result.kind = "Err"

\* the first byte 0x82 followed by four bytes makes the decoder panic
C35_ReservedFormPanics ==
    /\ subject.bytes = <<130, 0, 0, 0, 1>>
    /\ outcome.by = "nom_size_encoding"
    /\ outcome.result = NomPanic

-----------------------------------------------------------------------------
(* The snapshot loader applied to snapshot files *)

\* the events of a snapshot stream
SelectDb(n) == [op |-> "SelectDb", n |-> n]
SetExpirySec(t) == [op |-> "SetExpirySec", t |-> t]
SetExpiryMs(t) == [op |-> "SetExpiryMs", t |-> t]
Record(key, payload) == [op |-> "Record", key |-> key, payload |-> payload]
AuxField(key, value) == [op |-> "AuxField", key |-> key, value |-> value]
ResizeHint(main, expiry) == [op |-> "ResizeHint", main |-> main, expiry |-> expiry]
Eof == [op |-> "Eof"]
\* bytes that stand where an event should
Raw(bytes) == [op |-> "Raw", bytes |-> bytes]

\* t < 2^24 written as n bytes, least significant first
LeBytes(t, n) ==
    [i \in 1..n |-> IF i > 3 THEN 0 ELSE (t \div Pow2(8 * (i - 1))) % 256]

\* the bytes of one event; lengths and indices below 64 take one byte
EventBytes(e) ==
    CASE e.op = "SelectDb" -> <<254, e.n>>
      [] e.op = "SetExpirySec" -> <<253>> \o LeBytes(e.t, 4)
      [] e.op = "SetExpiryMs" -> <<252>> \o LeBytes(e.t, 8)
      [] e.op = "Record" ->
            <<0, Len(e.key)>> \o e.key \o <<Len(e.payload)>> \o e.payload
      [] e.op = "AuxField" ->
            <<250, Len(e.key)>> \o e.key \o <<Len(e.value)>> \o e.value
      [] e.op = "ResizeHint" -> <<251, e.main, e.expiry>>
      [] e.op = "Eof" -> <<255, 0, 0, 0, 0, 0, 0, 0, 0>>
      [] OTHER -> e.bytes

RECURSIVE StreamBytes(_, _)
StreamBytes(events, i) ==
    IF i > Len(events) THEN <<>>
    ELSE EventBytes(events[i]) \o StreamBytes(events, i + 1)

HEADER == <<82, 69, 68, 73, 83, 48, 48, 49, 49>>     \* "REDIS0011"

\* a snapshot file: how it is built, its events and its bytes
Snapshot(kind, events) ==
    [kind |-> kind, events |-> events,
     file |-> File(HEADER \o StreamBytes(events, 1))]

AUX_VER == AuxField(<<118, 101, 114>>, <<55>>)       \* "ver" -> "7"

\* nothing, or one expiry opcode
ExpiryOpcodes ==
    { <<>>, <<SetExpirySec(1)>>, <<SetExpirySec(2)>>, <<SetExpiryMs(999)>>,
      <<SetExpiryMs(1500)>> }

\* two records, each with or without its own expiry opcode, in one keyspace
\* or in two; records of one key; auxiliary fields and resize hints
WellFormedSnapshots ==
    { Snapshot("well-formed",
               e1 \o <<Record(K1, V1)>> \o sel \o e2 \o <<Record(K2, V2), Eof>>) :
        e1 \in ExpiryOpcodes,
        e2 \in { <<>>, <<SetExpirySec(2)>>, <<SetExpiryMs(999)>> },
        sel \in { <<>>, <<SelectDb(1)>> } }
    \cup
    { Snapshot("well-formed", ev) :
        ev \in { <<Eof>>,
                 <<Record(K1, V1), Record(K1, V2), Eof>>,
                 <<Record(K1, V1), SetExpiryMs(1500), Record(K1, V2), Eof>>,
                 <<SetExpiryMs(1500), Record(K1, V1), Record(K1, V2), Eof>>,
                 <<SetExpiryMs(1500), Record(K1, V1), SetExpiryMs(999),
                   Record(K1, V2), Eof>>,
                 <<AUX_VER, SelectDb(0), ResizeHint(2, 1), Record(K1, V1), Eof>>,
                 <<SelectDb(15), SetExpiryMs(1500), Record(K1, V1), SelectDb(0),
                   Record(K2, V2), Record(K3, <<>>), Eof>> } }

\* a keyspace index of 16 or more
OutOfRangeSnapshots ==
    { Snapshot("out-of-range", ev) :
        ev \in { <<Record(K1, V1), SelectDb(16), Record(K2, V2), Eof>>,
                 <<SelectDb(20), SetExpiryMs(1500), Record(K1, V1), Eof>>,
                 <<SelectDb(16), SetExpiryMs(999), Record(K1, V1), Eof>>,
                 <<SelectDb(16), ResizeHint(1, 1), Eof>>,
                 <<SelectDb(63), Eof>> } }

\* streams with a fault or with what the loader does not implement, and one
\* with an auxiliary field whose value is an inline integer
FaultySnapshots ==
    { Snapshot("faulty", ev) :
        ev \in { <<Record(K1, V1)>>,                               \* no EOF
                 <<Record(K1, V1), Raw(<<5>>), Record(K2, V2), Eof>>,
                 <<Record(K1, V1), Raw(<<254, 192, 1>>), Record(K2, V2), Eof>>,
                 <<Record(K1, V1), Raw(<<254>>)>>,
                 <<Record(K1, V1), Raw(<<253, 1, 0>>)>>,
                 <<Record(K1, V1), Raw(<<252, 1, 0, 0, 0>>)>>,
                 <<Record(K1, V1), Raw(<<251, 1>>)>>,
                 <<Record(K1, V1), Raw(<<251>>)>>,
                 <<Record(K1, V1), Raw(<<0, 3, 97>>)>>,
                 <<Record(K1, V1), Raw(<<0, 1, 97, 9, 98>>)>>,
                 <<Record(K1, V1), Raw(<<0, 1, 97, 192, 7>>), Eof>>,
                 <<Record(K1, V1), Raw(<<0, 192, 7, 1, 97>>), Eof>>,
                 <<Record(K1, V1), Raw(<<0, 195>>), Eof>>,
                 <<Record(K1, V1), Raw(<<1, 1, 97>>), Eof>>,
                 <<Record(K1, V1), Raw(<<14, 1, 97>>), Eof>>,
                 <<Record(K1, V1), Raw(<<4, 1, 97>>), Eof>>,
                 <<Record(K1, V1), Raw(<<9, 1, 97>>), Record(K2, V2), Eof>>,
                 <<Record(K1, V1), Raw(<<250, 1, 97, 192, 64>>), Record(K2, V2),
                   Eof>>,
                 <<Record(K1, V1), Raw(<<250, 192, 64, 1, 97>>), Eof>>,
                 <<Record(K1, V1), Raw(<<250, 1>>)>> } }
    \cup { [kind |-> "faulty", events |-> <<>>, file |-> f] :
             f \in { NoFile, File(<<>>), File(<<82, 69, 68, 73, 83>>),
                     File(<<82, 69, 68, 73, 83, 48, 48, 120, 49, 255>>),
                     File(<<88>> \o HEADER) } }

Snapshots == WellFormedSnapshots \cup OutOfRangeSnapshots \cup FaultySnapshots

\* the wall clock at the time of a load, in milliseconds
LoadClocks == {1000, 1500, 2001}

\* before the first load: DATABASES and EXPIRY as their initializers leave them
NotLoaded ==
    [by |-> "none", kind |-> "none",
     DATABASES |-> [i \in 0..(DEFAULT_DATABASES - 1) |-> EmptyMap],
     EXPIRY |-> [i \in 0..(DEFAULT_DATABASES - 1) |-> EmptyMap]]

InitLoad ==
    /\ InitServer
    /\ subject = [kind |-> "none", events |-> <<>>, file |-> NoFile, clock |-> 0]
    /\ outcome = NotLoaded

\* load_rdb called on a snapshot file; a panic ends the process
LoadRdb(snapshot, clock) ==
    /\ outcome.kind # "panic"
    /\ subject' = [kind |-> snapshot.kind, events |-> snapshot.events,
                   file |-> snapshot.file, clock |-> clock]
    /\ LET r == load_rdb(snapshot.file, outcome.DATABASES, outcome.EXPIRY, clock)
       IN  outcome' = [by |-> "load_rdb", kind |-> r.kind,
                       DATABASES |-> r.DATABASES, EXPIRY |-> r.EXPIRY]
    /\ UNCHANGED <<dbs, now, config, conn, crashed, cmd, reply, pre_db, store,
                   pre_store>>
    /\ UNCHANGED loop_vars

NextLoad == \E snapshot \in Snapshots, clock \in LoadClocks : LoadRdb(snapshot, clock)

SpecLoad == InitLoad /\ [][NextLoad]_vars

\* the keyspace selected at position i of a stream
RECURSIVE SelectedAt(_, _)
SelectedAt(events, i) ==
    IF i <= 1 THEN 0
    ELSE IF events[i - 1].op = "SelectDb" THEN events[i - 1].n
    ELSE SelectedAt(events, i - 1)

IsExpiryOpcode(e) == e.op \in {"SetExpirySec", "SetExpiryMs"}

\* the expiry, in milliseconds, an expiry opcode states
Deadline(e) == IF e.op = "SetExpirySec" THEN e.t * 1000 ELSE e.t

\* the pending expiry of the record at position i: that of the expiry opcode
\* right before it, none otherwise
PendingAt(events, i) ==
    IF i > 1 /\ IsExpiryOpcode(events[i - 1]) THEN Some(Deadline(events[i - 1]))
    ELSE None

IsRecord(events, i) == i \in 1..Len(events) /\ events[i].op = "Record"

\* positions i and j hold records of one key in one keyspace
SameSlot(events, i, j) ==
    /\ IsRecord(events, i)
    /\ IsRecord(events, j)
    /\ events[i].key = events[j].key
    /\ SelectedAt(events, i) = SelectedAt(events, j)

\* the record at i is dropped as expired at a load started at `clock`
Expired(events, i, clock) ==
    PendingAt(events, i).some /\ PendingAt(events, i).val < clock

\* the record at i is the last of its key and keyspace that is not dropped
Stands(events, i, clock) ==
    /\ IsRecord(events, i)
    /\ ~Expired(events, i, clock)
    /\ \A j \in (i + 1)..Len(events) :
          SameSlot(events, i, j) => Expired(events, j, clock)

\* keyspace n holds key -> value with the given expiry
Holds(loaded, n, key, value, expiry) ==
    /\ key \in DOMAIN loaded.DATABASES[n]
    /\ loaded.DATABASES[n][key] = value
    /\ IF expiry.some
       THEN key \in DOMAIN loaded.EXPIRY[n] /\ loaded.EXPIRY[n][key] = expiry.val
       ELSE key \notin DOMAIN loaded.EXPIRY[n]

\* keyspace n has nothing under key, value or expiry
Lacks(loaded, n, key) ==
    key \notin DOMAIN loaded.DATABASES[n] /\ key \notin DOMAIN loaded.EXPIRY[n]

\* C18: an expiry opcode applies to the single next record only; a record not
\* immediately preceded by its own expiry opcode is loaded with no expiry and
\* is never dropped as expired.
C18_ExpiryAppliesOnce ==
    (subject.kind = "well-formed" /\ outcome.by = "load_rdb") =>
        \A i \in 1..Len(subject.events) :
            ( /\ IsRecord(subject.events, i)
              /\ ~PendingAt(subject.events, i).some
              /\ \A j \in (i + 1)..Len(subject.events) :
                    ~SameSlot(subject.events, i, j) ) =>
                Holds(outcome, SelectedAt(subject.events, i),
                      subject.events[i].key, subject.events[i].payload, None)

\* a past expiry followed by two records: the second record, which has no
\* expiry opcode of its own, is dropped with the first
C18_SecondRecordDropped ==
    /\ subject.kind = "well-formed"
    /\ subject.events =
           <<SetExpiryMs(999), Record(K1, V1), Record(K2, V2), Eof>>
    /\ subject.clock = 1000
    /\ outcome.kind = "Ok"
    /\ Lacks(outcome, 0, K2)

\* C19: a String record whose pending expiry is strictly earlier than the
\* clock of the load is not inserted; any other is inserted, with its pending
\* expiry if any, into the keyspace of the most recent SELECTDB (0 when there
\* is none) and into no other.
C19_RecordInserted ==
    (subject.kind = "well-formed" /\ outcome.by = "load_rdb") =>
        \A i \in 1..Len(subject.events) :
            IsRecord(subject.events, i) =>
                LET events == subject.events
                    key == events[i].key
                    n == SelectedAt(events, i)
                IN  /\ Stands(events, i, subject.clock) =>
                          Holds(outcome, n, key, events[i].payload,
                                PendingAt(events, i))
                    /\ (\A j \in 1..Len(events) :
                           SameSlot(events, i, j) =>
                               Expired(events, j, subject.clock)) =>
                          Lacks(outcome, n, key)
                    /\ \A m \in 0..(DEFAULT_DATABASES - 1) :
                          (\A j \in 1..Len(events) :
                              (IsRecord(events, j) /\ events[j].key = key) =>
                                  SelectedAt(events, j) # m) =>
                              Lacks(outcome, m, key)

\* an expiry still ahead followed by two records: the second record, which
\* has no pending expiry, is stored with the expiry of the first
C19_ExpiryOfEarlierRecord ==
    /\ subject.kind = "well-formed"
    /\ subject.events =
           <<SetExpiryMs(1500), Record(K1, V1), Record(K2, V2), Eof>>
    /\ subject.clock = 1000
    /\ outcome.kind = "Ok"
    /\ K2 \in DOMAIN outcome.EXPIRY[0]
    /\ outcome.EXPIRY[0][K2] = 1500

\* the keys keyspace n has an entry for, value or expiry
KeysOf(loaded, n) == DOMAIN loaded.DATABASES[n] \cup DOMAIN loaded.EXPIRY[n]

\* the stream has a record of `key` in keyspace n
Supplies(events, n, key) ==
    \E i \in 1..Len(events) :
        IsRecord(events, i) /\ events[i].key = key /\ SelectedAt(events, i) = n

\* keyspace n holds the records of the stream that stand, and nothing else
ExactlyRetained(loaded, events, clock, n) ==
    /\ \A i \in 1..Len(events) :
          (Stands(events, i, clock) /\ SelectedAt(events, i) = n) =>
              Holds(loaded, n, events[i].key, events[i].payload,
                    PendingAt(events, i))
    /\ \A key \in KeysOf(loaded, n) :
          \E i \in 1..Len(events) :
              /\ Stands(events, i, clock)
              /\ SelectedAt(events, i) = n
              /\ events[i].key = key

\* C20: after any call to load_rdb no entry, value or expiry, from before the
\* call remains in any of the 16 keyspaces; after a call that returns Ok each
\* keyspace holds exactly the records retained from the snapshot for that
\* database.
C20_LoadReplaces ==
    [][ outcome'.by = "load_rdb" =>
          \A n \in 0..(DEFAULT_DATABASES - 1) :
             /\ \A key \in KeysOf(outcome, n) :
                   ~Supplies(subject'.events, n, key) => Lacks(outcome', n, key)
             /\ (outcome'.kind = "Ok" /\ subject'.kind = "well-formed") =>
                   ExactlyRetained(outcome', subject'.events, subject'.clock, n)
      ]_vars

\* database 1 of the snapshot has k2 with no expiry; after the load keyspace 1
\* is empty
C20_RecordOfSnapshotMissing ==
    /\ subject.kind = "well-formed"
    /\ subject.events =
           <<SetExpiryMs(999), Record(K1, V1), SelectDb(1), Record(K2, V2), Eof>>
    /\ subject.clock = 1500
    /\ outcome.kind = "Ok"
    /\ KeysOf(outcome, 1) = {}

\* the bytes of the model's snapshots that stand for a fault at an event's
\* place: a byte that is neither opcode nor value type, a SELECTDB with an
\* inline integer, and fields cut short
FaultBytes ==
    { <<5>>, <<254, 192, 1>>, <<254>>, <<253, 1, 0>>, <<252, 1, 0, 0, 0>>,
      <<251, 1>>, <<251>>, <<0, 3, 97>>, <<0, 1, 97, 9, 98>>, <<250, 1>> }

\* the stream has a fault, or ends before the EOF opcode
IsMalformed(events) ==
    /\ events # <<>>
    /\ \/ events[Len(events)].op # "Eof"
       \/ \E i \in 1..Len(events) :
             events[i].op = "Raw" /\ events[i].bytes \in FaultBytes

\* C21: load_rdb returns an error whenever the snapshot is malformed; it never
\* returns Ok after loading only a prefix of the records.
C21_MalformedIsError ==
    (outcome.by = "load_rdb" /\ IsMalformed(subject.events)) =>
        outcome.kind = "Err"

\* a byte that is no opcode and no value type between two records: the load
\* returns Ok with the first record only
C21_TornKeyspace ==
    /\ subject.events = <<Record(K1, V1), Raw(<<5>>), Record(K2, V2), Eof>>
    /\ outcome.by = "load_rdb"
    /\ outcome.kind = "Ok"
    /\ Holds(outcome, 0, K1, V1, None)
    /\ Lacks(outcome, 0, K2)

-----------------------------------------------------------------------------
(* The server started on a snapshot file, then read by GET *)

\* the keyspaces the commands read, from what the loader kept: each key with
\* its value and its optional expiry
Keyspaces(databases, expiries) ==
    [n \in DOMAIN databases |->
        [key \in DOMAIN databases[n] |->
            DBValue(databases[n][key],
                    IF key \in DOMAIN expiries[n] THEN Some(expiries[n][key])
                    ELSE None)]]

\* the instants of the wall clock the model visits, in milliseconds
ClockPoints == LoadClocks \cup {1001, 1501, 2000}

\* before the process starts: no client is connected yet
InitStart ==
    /\ dbs = [i \in 0..(DEFAULT_DATABASES - 1) |-> EmptyMap]
    /\ now \in LoadClocks
    /\ config = [dir |-> <<46, 47, 100, 97, 116, 97>>,
                 dbfilename |-> <<100, 117, 109, 112, 46, 114, 100, 98>>]
    /\ conn = "dropped"
    /\ crashed = FALSE
    /\ cmd = Idle
    /\ reply = <<>>
    /\ pre_db = EmptyMap
    /\ store = NoStore
    /\ pre_store = NoStore
    /\ NewServer
    /\ NewSnapshotTimer(now)
    /\ subject = [kind |-> "none", events |-> <<>>, file |-> NoFile, clock |-> 0]
    /\ outcome = NotLoaded

\* startup: the snapshot at <dir>/<dbfilename> is loaded if the file exists;
\* a failed load ends the process, otherwise a client connects
Start(snapshot) ==
    /\ outcome.by = "none"
    /\ LET r == load_rdb(snapshot.file, outcome.DATABASES, outcome.EXPIRY, now)
           absent == ~snapshot.file.exists
       IN  /\ outcome' = [by |-> "load_rdb",
                          kind |-> IF absent THEN "Ok" ELSE r.kind,
                          DATABASES |-> r.DATABASES, EXPIRY |-> r.EXPIRY]
           /\ dbs' = Keyspaces(r.DATABASES, r.EXPIRY)
           /\ crashed' = (~absent /\ r.kind # "Ok")
           /\ conn' = IF absent \/ r.kind = "Ok" THEN "open" ELSE "dropped"
    /\ subject' = [kind |-> snapshot.kind, events |-> snapshot.events,
                   file |-> snapshot.file, clock |-> now]
    /\ pre_db' = EmptyMap
    /\ UNCHANGED <<now, config, cmd, reply, store, pre_store>>
    /\ UNCHANGED loop_vars

\* the wall clock advances to the next instant while the server waits
Elapse ==
    /\ ~crashed
    /\ cmd = Idle
    /\ outcome.by # "none"
    /\ \E t \in ClockPoints :
          /\ t > now
          /\ \A u \in ClockPoints : u > now => u >= t
          /\ now' = t
    /\ UNCHANGED <<dbs, config, conn, crashed, cmd, reply, pre_db, store, pre_store,
                   subject, outcome>>
    /\ UNCHANGED loop_vars

\* what the client sends to a started server
StartReads == { GetCommand(k) : k \in {K1, K2, K3} }

NextStart ==
    \/ \E snapshot \in Snapshots : Start(snapshot)
    \/ \E read \in StartReads : ProcessEvent(read)
    \/ Poll
    \/ Elapse

SpecStart == InitStart /\ [][NextStart]_vars

\* the record of keyspace 0 that stands for `key`, given as its position in
\* the stream; 0 when none does
StandingRecord(events, key, clock) ==
    IF \E i \in 1..Len(events) :
          Stands(events, i, clock) /\ SelectedAt(events, i) = 0
          /\ events[i].key = key
    THEN CHOOSE i \in 1..Len(events) :
          Stands(events, i, clock) /\ SelectedAt(events, i) = 0
          /\ events[i].key = key
    ELSE 0

\* C22: a key loaded with expiry E is returned by GET while the wall clock is
\* at most E and answered with null bulk once the clock exceeds E; a key loaded
\* with a past expiry is answered with null bulk from the start; a key loaded
\* without expiry is returned at every later time.
C22_LoadedKeyRead ==
    (subject.kind = "well-formed" /\ outcome.kind = "Ok" /\ IsGet(cmd)) =>
        LET i == StandingRecord(subject.events, GetKey(cmd), subject.clock)
            E == PendingAt(subject.events, i)
        IN  IF i = 0 THEN reply = NULL
            ELSE IF E.some /\ now > E.val THEN reply = NULL
            ELSE IsBulkOf(reply, subject.events[i].payload)

\* k2 stands in the snapshot without expiry, after a record with expiry 1500;
\* once the clock has passed 1500, GET k2 is answered with null bulk
C22_KeyWithoutExpiryGone ==
    /\ subject.events = <<SetExpiryMs(1500), Record(K1, V1), Record(K2, V2), Eof>>
    /\ subject.clock = 1000
    /\ outcome.kind = "Ok"
    /\ now = 1501
    /\ cmd = GetCommand(K2)
    /\ reply = NULL

\* the value-type bytes the decoder recognizes besides String
OtherValueTypes == (1..4) \cup (9..14)

\* the stream has a record of a recognized value type other than String
HasOtherValueType(events) ==
    \E i \in 1..Len(events) :
        /\ events[i].op = "Raw"
        /\ events[i].bytes[1] \in OtherValueTypes

\* C23: on a recognized non-String value-type byte loading ends cleanly:
\* load_rdb returns, with an error or with the records read so far, and the
\* process does not crash.
C23_OtherValueTypeReturns ==
    (outcome.by = "load_rdb" /\ HasOtherValueType(subject.events)) =>
        /\ outcome.kind \in {"Ok", "Err"}
        /\ Holds(outcome, 0, K1, V1, None)

\* a List record after a String record: load_rdb panics
C23_ListRecordPanics ==
    /\ subject.events = <<Record(K1, V1), Raw(<<1, 1, 97>>), Eof>>
    /\ outcome.by = "load_rdb"
    /\ outcome.kind = "panic"

-----------------------------------------------------------------------------
(* The event loop: Server::run_once over the listener and the connections. *)
(* A connection is named by its arrival number, the n-th stream accept     *)
(* handed out.                                                             *)

\* the listener hands out at most MaxArrivals streams
MaxArrivals == 3
\* the event loop is followed for MaxIterations iterations, and for
\* MaxTimerIterations of them when no client ever connects
MaxIterations == 3
MaxTimerIterations == 6

POLL_TIMEOUT == 1000

\* what revents() of a polled descriptor is: None, flags with POLLIN, flags
\* without it
Revents == {"None", "POLLIN", "POLLHUP"}

\* a descriptor as poll and read find it in one iteration: the flags poll
\* reports for it, what read returns, and whether a write succeeds
Socket(revents, read, writable) ==
    [revents |-> revents, read |-> read, writable |-> writable]

\* Server::run_once, the readiness flags collected from poll_fds after the
\* listener's entry
connection_events(conns, sockets) ==
    [i \in 1..Len(conns) |-> sockets[conns[i]].revents]

\* Vec::push reversed: the stream is put in front
push_front(conns, stream) == <<stream>> \o conns

\* Vec::push
push(conns, stream) == Append(conns, stream)

\* Server::accept_new_connections from the i-th call of accept on; accepts
\* lists what the calls return, its last entry ends the loop
RECURSIVE accept_new_connections(_, _, _, _)
accept_new_connections(accepts, i, conns, arrived) ==
    CASE accepts[i] = "Ok" ->
           accept_new_connections(accepts, i + 1, push(conns, arrived + 1),
                                  arrived + 1)
      [] accepts[i] = "SetNonblockingError" ->
           [result |-> "Err", connections |-> conns, arrivals |-> arrived + 1,
            last |-> accepts[i]]
      [] OTHER ->     \* WouldBlock, or another error of accept
           [result |-> "Ok", connections |-> conns, arrivals |-> arrived,
            last |-> accepts[i]]

\* what Connection::process_event returns (Ok(self), Err, or a panic), with
\* whether it read the stream, the bytes it wrote and the keyspace it left
Event(kind, read, out, db) ==
    [kind |-> kind, read |-> read, out |-> out, db |-> db]

\* a handler on a stream whose writes fail: the `?` on write_all returns the
\* error.  Every handler writes; handle_set inserts before it writes, and
\* handle_get removes an expired entry after it wrote NULL.
broken_write(r, db) ==
    IF r.kind = "ok" THEN Fatal(IF r.out = NULL THEN db ELSE r.db) ELSE r

\* Connection::process_input on what was read
process_read(socket, db, t, cfg) ==
    CASE socket.read.type = "Invalid" -> Fatal(db)
      [] socket.writable ->
           process_input(Terms(socket.read), 1, db, t, cfg, <<>>)
      [] OTHER ->
           broken_write(process_term(Terms(socket.read)[1], db, t, cfg), db)

\* Connection::process_event, the match on what process_input returned
process_event_input(r, writable) ==
    CASE r.kind = "ok" -> Event("Ok", TRUE, r.out, r.db)
      [] r.kind = "client_error" ->
           IF writable
           THEN Event("Ok", TRUE, r.out \o write_error(r.msg), r.db)
           ELSE Event("Err", TRUE, r.out, r.db)
      [] r.kind = "fatal" -> Event("Err", TRUE, r.out, r.db)
      [] OTHER -> Event("panic", TRUE, r.out, r.db)

\* Connection::process_event
process_event(event, socket, db, t, cfg) ==
    IF event # "POLLIN" THEN Event("Ok", FALSE, <<>>, db)
    ELSE CASE socket.read.type \in {"Closed", "ReadError"} ->
                Event("Err", TRUE, <<>>, db)
           [] socket.read.type = "WouldBlock" -> Event("Ok", TRUE, <<>>, db)
           [] OTHER ->
                process_event_input(process_read(socket, db, t, cfg),
                                    socket.writable)

\* Vec::drain(..polled_count): the entries taken and the ones left
drain(conns, polled_count) ==
    [taken |-> SubSeq(conns, 1, polled_count),
     left |-> SubSeq(conns, polled_count + 1, Len(conns))]

\* one connection served: the flag it was zipped with and what came of it
Served(c, event, socket, r) ==
    [conn |-> c, event |-> event, socket |-> socket, kind |-> r.kind,
     read |-> r.read, out |-> r.out]

\* the closure of filter_map keeps every connection
retain_all(acc, c, event, socket, r) ==
    [kept |-> Append(acc.kept, c),
     served |-> Append(acc.served, Served(c, event, socket, r)),
     db |-> r.db,
     kind |-> IF r.kind = "panic" THEN "panic" ELSE "Ok"]

\* the closure of filter_map: the connection is kept when process_event
\* returned Ok, and dropped when it returned an error
retain(acc, c, event, socket, r) ==
    [kept |-> IF r.kind = "Ok" THEN Append(acc.kept, c) ELSE acc.kept,
     served |-> Append(acc.served, Served(c, event, socket, r)),
     db |-> r.db,
     kind |-> IF r.kind = "panic" THEN "panic" ELSE "Ok"]

\* polled_conns.into_iter().zip(events.iter()).filter_map(..) from pair i
\* on; a panic of the closure ends it
RECURSIVE filter_map(_, _, _, _, _, _, _)
filter_map(polled_conns, events, i, sockets, t, cfg, acc) ==
    IF i > Len(polled_conns) \/ i > Len(events) \/ acc.kind = "panic"
    THEN acc
    ELSE filter_map(polled_conns, events, i + 1, sockets, t, cfg,
             retain(acc, polled_conns[i], events[i], sockets[polled_conns[i]],
                    process_event(events[i], sockets[polled_conns[i]],
                                  acc.db, t, cfg)))

\* chain reversed: the connections left in the list come first
chain_left_first(polled_conns, left) == left \o polled_conns

\* polled_conns.into_iter().chain(self.connections.drain(..)).collect()
chain(polled_conns, left) == polled_conns \o left

\* the list process_existing_connections leaves, given what drain took and
\* what filter_map made of it
collect(drained, mapped) ==
    [connections |-> chain(mapped.kept, drained.left), served |-> mapped.served,
     db |-> mapped.db, kind |-> mapped.kind]

\* Server::process_existing_connections
process_existing_connections(conns, events, polled_count, sockets, db, t, cfg) ==
    collect(drain(conns, polled_count),
            filter_map(drain(conns, polled_count).taken, events, 1, sockets, t,
                       cfg, [kept |-> <<>>, served |-> <<>>, db |-> db,
                             kind |-> "Ok"]))

\* the interval is over at clock t, counted from the last attempt
snapshot_elapsed(t, last, cfg) == t - last > cfg.snapshot_interval * 1000

\* step 7 of the loop: `now - last_snapshot >= snapshot_interval`, the
\* interval being in seconds
snapshot_due(t, last, cfg) == t - last >= cfg.snapshot_interval * 1000

\* fork_and_save at clock t: the attempt and whether fork succeeded
fork_and_save(t, forked) == [at |-> t, forked |-> forked]

\* step 7 of the loop: the snapshot attempt and the reset of last_snapshot
schedule_snapshot(t, forked) ==
    IF snapshot_due(t, last_snapshot, config)
    THEN /\ last_snapshot' = t
         /\ snapshots' = Append(snapshots, fork_and_save(t, forked))
    ELSE UNCHANGED <<last_snapshot, snapshots>>

\* what an iteration leaves for the next one to look back at
Iteration(result, events, sockets, accept, accepted, served) ==
    [result |-> result, n |-> iteration.n + 1, polled |-> connections,
     reported |-> sockets, events |-> events, accept |-> accept,
     accepted |-> accepted, served |-> served, at |-> now',
     last_snapshot |-> last_snapshot]

\* Server::run_once after the accept loop returned a: an error of the accept
\* loop is returned, otherwise the polled connections are processed (p)
run_once_accepted(a, p, events, sockets, forked) ==
    /\ arrivals' = a.arrivals
    /\ IF a.result = "Err"
       THEN /\ connections' = a.connections
            /\ iteration' = Iteration("Err", events, sockets, a.last,
                                      SelectSeq(a.connections,
                                                LAMBDA c : c > arrivals), <<>>)
            /\ UNCHANGED <<dbs, crashed, last_snapshot, snapshots>>
       ELSE /\ dbs' = [dbs EXCEPT ![0] = p.db]
            /\ iteration' = Iteration(p.kind, events, sockets, a.last,
                                      SelectSeq(a.connections,
                                                LAMBDA c : c > arrivals),
                                      p.served)
            /\ crashed' = (p.kind = "panic")
            /\ IF p.kind = "panic"
               THEN UNCHANGED <<connections, last_snapshot, snapshots>>
               ELSE /\ connections' = p.connections
                    /\ schedule_snapshot(now', forked)

\* Server::run_once after poll returned: the accept loop runs when the
\* listener is readable
run_once_polled(a, events, polled_count, sockets, forked) ==
    run_once_accepted(a,
        process_existing_connections(a.connections, events, polled_count,
                                     sockets, dbs[0], now', config),
        events, sockets, forked)

\* Server::run_once, one iteration of run_forever.  poll returns after wait
\* milliseconds, with an error (polled = FALSE) or with the flags of
\* listener_event and sockets; accepts is what the calls of accept return.
RunOnce(wait, polled, listener_event, sockets, accepts, forked) ==
    /\ ~crashed
    /\ iteration.result \in {"none", "Ok"}
    /\ now' = now + wait
    /\ IF ~polled
       THEN /\ crashed' = TRUE
            /\ iteration' = Iteration("panic", <<>>, <<>>, "none", <<>>, <<>>)
            /\ UNCHANGED <<dbs, connections, arrivals, last_snapshot, snapshots>>
       ELSE run_once_polled(
                IF listener_event = "POLLIN"
                THEN accept_new_connections(accepts, 1, connections, arrivals)
                ELSE [result |-> "Ok", connections |-> connections,
                      arrivals |-> arrivals, last |-> "none"],
                connection_events(connections, sockets), Len(connections),
                sockets, forked)
    /\ UNCHANGED <<config, conn, cmd, reply, pre_db, store, pre_store, subject,
                   outcome>>

\* the server at the start of run_forever, with a snapshot interval of one
\* second
InitLoop ==
    /\ dbs = [i \in 0..(DEFAULT_DATABASES - 1) |-> EmptyMap]
    /\ now = 0
    /\ config = [dir |-> <<46, 47, 100, 97, 116, 97>>,
                 dbfilename |-> <<100, 117, 109, 112, 46, 114, 100, 98>>,
                 snapshot_interval |-> 1]
    /\ conn = "dropped"
    /\ crashed = FALSE
    /\ cmd = Idle
    /\ reply = <<>>
    /\ pre_db = EmptyMap
    /\ store = NoStore
    /\ pre_store = NoStore
    /\ subject = <<>>
    /\ outcome = <<>>
    /\ NewServer
    /\ NewSnapshotTimer(now)

\* how long poll blocks: it returns early on an event, at POLL_TIMEOUT
\* without one
Waits == {POLL_TIMEOUT \div 4, POLL_TIMEOUT \div 2, POLL_TIMEOUT}

\* a connection with nothing to read, one that sent PING, one its peer closed
Quiet == Socket("None", WouldBlock, TRUE)
CalmSockets ==
    { Quiet, Socket("POLLIN", PingCommand, TRUE), Socket("POLLIN", Closed, TRUE) }

\* CONFIG without a subcommand: a ClientError
ConfigCommand == Array(<<BulkString(T_CONFIG)>>)

\* a connection whose event is out of the ordinary
FaultSockets ==
    { Socket("POLLIN", WouldBlock, TRUE),
      Socket("POLLHUP", Closed, TRUE),
      Socket("POLLIN", ReadError, TRUE),
      Socket("POLLIN", Invalid, TRUE),
      Socket("POLLIN", PingCommand, FALSE),
      Socket("POLLIN", ConfigCommand, TRUE),
      Socket("POLLIN", ConfigCommand, FALSE),
      Socket("POLLIN", SimpleString(<<70, 79, 79>>), TRUE),              \* +FOO
      Socket("POLLIN", Array(<<BulkString(<<70, 79, 79>>)>>), TRUE),     \* FOO
      Socket("POLLIN", BulkString(T_PING), TRUE),                        \* $4 PING
      Socket("POLLIN", Array(<<BulkString(T_GET)>>), TRUE),              \* GET
      Socket("POLLIN", Array(<<BulkString(T_GET), BulkString(K1),
                               BulkString(K2)>>), TRUE) }                \* GET k k2

\* the descriptors as one iteration finds them: at most one connection of
\* the list is out of the ordinary, and a stream that is not in the list
\* has a PING waiting
Descriptors == 1..MaxArrivals
InList(c) == \E i \in 1..Len(connections) : connections[i] = c
CalmPolls ==
    { [c \in Descriptors |->
          IF InList(c) THEN f[c] ELSE Socket("POLLIN", PingCommand, TRUE)] :
        f \in [Descriptors -> CalmSockets] }
Polls ==
    CalmPolls
    \cup { [b EXCEPT ![c] = x] :
             b \in CalmPolls, c \in { d \in Descriptors : InList(d) },
             x \in FaultSockets }

\* k streams accepted, then the call that ends the accept loop
Streams(k) == [i \in 1..k |-> "Ok"]
AcceptRuns ==
    { Append(Streams(k), last) :
        k \in 0..(MaxArrivals - arrivals), last \in {"WouldBlock", "Error"} }
    \cup { Append(Streams(k), "SetNonblockingError") :
             k \in 0..(MaxArrivals - arrivals - 1) }

\* clients connect and send; the iterations take POLL_TIMEOUT each and fork
\* succeeds
NextLoop ==
    /\ iteration.n < MaxIterations
    /\ \/ \E sockets \in Polls, accepts \in AcceptRuns :
             RunOnce(POLL_TIMEOUT, TRUE, "POLLIN", sockets, accepts, TRUE)
       \/ \E sockets \in Polls, listener_event \in Revents \ {"POLLIN"} :
             RunOnce(POLL_TIMEOUT, TRUE, listener_event, sockets,
                     <<"WouldBlock">>, TRUE)
       \/ \E sockets \in Polls :
             RunOnce(POLL_TIMEOUT, FALSE, "None", sockets, <<"WouldBlock">>, TRUE)

SpecLoop == InitLoop /\ [][NextLoop]_vars

\* no client connects: the iterations differ in how long poll blocks and in
\* whether fork succeeds
NextTimer ==
    /\ iteration.n < MaxTimerIterations
    /\ \E wait \in Waits, polled \in BOOLEAN, sockets \in Polls, forked \in BOOLEAN :
           RunOnce(wait, polled, "None", sockets, <<"WouldBlock">>, forked)

SpecTimer == InitLoop /\ [][NextTimer]_vars

-----------------------------------------------------------------------------
(* Claims about the event loop *)

\* the connections the last iteration paired with a flag
ServedConns == { iteration.served[i].conn : i \in 1..Len(iteration.served) }
Members(list) == { list[i] : i \in 1..Len(list) }

\* C24: in one iteration only the connections that were in the list when
\* the readiness vector was built are paired with a flag and read, each with
\* the flag poll reported for its own descriptor; a connection accepted in
\* the iteration is neither read nor paired with a flag.
C24_PolledCount ==
    /\ ServedConns \subseteq Members(iteration.polled)
    /\ ServedConns \cap Members(iteration.accepted) = {}
    /\ \A i \in 1..Len(iteration.served) :
          /\ iteration.served[i].event =
                 iteration.reported[iteration.served[i].conn].revents
          /\ iteration.served[i].read => iteration.served[i].event = "POLLIN"

C24_AcceptedWhilePolled ==
    /\ iteration.result = "Ok"
    /\ iteration.polled = <<1, 2>>
    /\ iteration.accepted = <<3>>
    /\ Len(iteration.served) = 2
    /\ iteration.served[1].event = "None" /\ ~iteration.served[1].read
    /\ iteration.served[2].event = "POLLIN" /\ iteration.served[2].read
    /\ connections = <<1, 2, 3>>

\* the read of a served connection returned bytes
ReadData(s) ==
    s.event = "POLLIN" /\ s.socket.read.type \notin {"Closed", "ReadError", "WouldBlock"}

\* handling the bytes ended in a failure that is not a ClientError: parse or
\* a handler returned one, or a reply (the error line of a ClientError
\* included) could not be written
HandlerFailed(s) ==
    /\ ReadData(s)
    /\ \/ process_read(s.socket, dbs[0], iteration.at, config).kind = "fatal"
       \/ /\ process_read(s.socket, dbs[0], iteration.at, config).kind = "client_error"
          /\ ~s.socket.writable

\* the three reasons for which a polled connection is to be removed
ToRemove(s) ==
    \/ s.event = "POLLIN" /\ s.socket.read.type \in {"Closed", "ReadError"}
    \/ HandlerFailed(s)

GetTwoKeys == Array(<<BulkString(T_GET), BulkString(K1), BulkString(K2)>>)

\* what one connection alone can get wrong: an unrecognized command name, a
\* term that is not a command, GET with no key or with two, a reply that
\* cannot be written
LocalFaults ==
    { Socket("POLLIN", SimpleString(<<70, 79, 79>>), TRUE),
      Socket("POLLIN", Array(<<BulkString(<<70, 79, 79>>)>>), TRUE),
      Socket("POLLIN", BulkString(T_PING), TRUE),
      Socket("POLLIN", Array(<<BulkString(T_GET)>>), TRUE),
      Socket("POLLIN", GetTwoKeys, TRUE),
      Socket("POLLIN", PingCommand, FALSE),
      Socket("POLLIN", ConfigCommand, FALSE) }

\* C26: a fault confined to one connection removes at most that connection:
\* the iteration ends, the server runs on, and every other polled
\* connection that did not fail itself is still in the list.
C26_FaultConfined ==
    \A i \in 1..Len(iteration.served) :
        iteration.served[i].socket \in LocalFaults =>
            /\ ~crashed
            /\ iteration.result = "Ok"
            /\ \A j \in 1..Len(iteration.served) :
                  (j # i /\ ~ToRemove(iteration.served[j]))
                      => iteration.served[j].conn \in Members(connections)

C26_WrongArgsEndServer ==
    /\ iteration.polled = <<1, 2, 3>>
    /\ Len(iteration.served) = 2
    /\ iteration.served[1].socket = Socket("POLLIN", PingCommand, TRUE)
    /\ iteration.served[2].socket = Socket("POLLIN", GetTwoKeys, TRUE)
    /\ iteration.served[1].out = PONG
    /\ iteration.served[2].kind = "panic"
    /\ crashed

-----------------------------------------------------------------------------
(* Claims about CONFIG GET and the expiry a GET finds *)

\* the term read is CONFIG GET <name>
IsConfigGet(data) ==
    /\ data.type = "Array"
    /\ Len(data.data) = 3
    /\ \A i \in 1..3 : IsBulk(data.data[i])
    /\ to_ascii_uppercase(data.data[1].data) = T_CONFIG
    /\ to_ascii_uppercase(data.data[2].data) = T_GET

\* the two-element array of bulk strings [name, value] on the wire
NameAndValue(name, value) == Wire(Array(<<BulkString(name), BulkString(value)>>))

\* the ways of writing a name that is case-insensitively upper
Spellings(name, upper) ==
    { n \in {name, upper, NAME_DIR, NAME_DBFILENAME} : to_ascii_uppercase(n) = upper }

\* C27: CONFIG GET <name> with <name> case-insensitively DIR or DBFILENAME
\* is answered by the two-element array of bulk strings [name, value], the
\* value being the configuration's dir or dbfilename; any other name by the
\* empty array; the configuration and the keyspace stay as they were.
C27_ConfigGet ==
    IsConfigGet(cmd) =>
        /\ CASE to_ascii_uppercase(cmd.data[3].data) = T_DIR ->
                  \E n \in Spellings(cmd.data[3].data, T_DIR) :
                      reply = NameAndValue(n, config.dir)
             [] to_ascii_uppercase(cmd.data[3].data) = T_DBFILENAME ->
                  \E n \in Spellings(cmd.data[3].data, T_DBFILENAME) :
                      reply = NameAndValue(n, config.dbfilename)
             [] OTHER -> reply = EMPTY_ARRAY
        /\ dbs[0] = pre_db
        /\ config.dir = <<46, 47, 100, 97, 116, 97>>
        /\ config.dbfilename = <<100, 117, 109, 112, 46, 114, 100, 98>>
        /\ conn = "open" /\ ~crashed

C27_MixedCaseName ==
    /\ IsConfigGet(cmd)
    /\ cmd.data[3].data = <<68, 98, 70, 105, 108, 101, 78, 97, 109, 101>>
    /\ reply = NameAndValue(NAME_DBFILENAME, <<100, 117, 109, 112, 46, 114, 100, 98>>)

\* C28: a GET of a key whose expiry is strictly less than the wall clock is
\* answered null bulk and removes the entry from keyspace 0; a key whose
\* expiry is the wall clock or later, or that has none, is returned and
\* stays.
C28_LazyEviction ==
    (IsGet(cmd) /\ GetKey(cmd) \in DOMAIN pre_db) =>
        IF pre_db[GetKey(cmd)].ttl.some /\ pre_db[GetKey(cmd)].ttl.val < now
        THEN /\ reply = NULL
             /\ GetKey(cmd) \notin DOMAIN dbs[0]
             /\ dbs[0] = MapRemove(pre_db, GetKey(cmd))
        ELSE /\ IsBulkOf(reply, pre_db[GetKey(cmd)].value)
             /\ dbs[0] = pre_db

\* an entry read at its deadline is returned, and one read after it is gone
C28_ReadAtDeadline ==
    /\ IsGet(cmd)
    /\ GetKey(cmd) \in DOMAIN pre_db
    /\ pre_db[GetKey(cmd)].ttl = Some(now)
    /\ IsBulkOf(reply, pre_db[GetKey(cmd)].value)
    /\ dbs[0] = pre_db

-----------------------------------------------------------------------------
(* Claims about the snapshot timer and the order of the connection list *)

\* the snapshot interval in milliseconds
IntervalMs == config.snapshot_interval * 1000

\* C29: an iteration that ends with now - last_snapshot >= snapshot_interval
\* calls fork_and_save and sets last_snapshot to now, whether or not the fork
\* succeeded; an iteration that ends before the interval is over does
\* neither.  So an attempt is made at most POLL_TIMEOUT after the interval
\* boundary.
C29_SnapshotTimer ==
    [][ iteration'.result = "Ok" =>
          IF now' - last_snapshot >= IntervalMs
          THEN /\ last_snapshot' = now'
               /\ Len(snapshots') = Len(snapshots) + 1
               /\ SubSeq(snapshots', 1, Len(snapshots)) = snapshots
               /\ snapshots'[Len(snapshots')].at = now'
               /\ now' - (last_snapshot + IntervalMs) <= POLL_TIMEOUT
          ELSE UNCHANGED <<last_snapshot, snapshots>> ]_vars

\* a failed fork resets the timer too, and the next attempt is an interval
\* later
C29_ResetAfterFailedFork ==
    /\ Len(snapshots) = 2
    /\ ~snapshots[1].forked
    /\ snapshots[2].forked
    /\ snapshots[2].at - snapshots[1].at >= IntervalMs
    /\ last_snapshot = snapshots[2].at
    /\ now > last_snapshot

\* C30: after every iteration the connection list is in arrival order: the
\* polled connections that survived, in the order they had, come before the
\* connections accepted in the iteration, which are in accept order.
C30_ArrivalOrder ==
    /\ \A i, j \in 1..Len(connections) :
          i < j => connections[i] < connections[j]
    /\ iteration.result = "Ok" =>
          /\ connections =
                SelectSeq(iteration.polled,
                          LAMBDA c : c \in Members(connections))
                \o iteration.accepted
          /\ \A i, j \in 1..Len(iteration.accepted) :
                i < j => iteration.accepted[i] < iteration.accepted[j]

C30_SurvivorsBeforeAccepted ==
    /\ iteration.result = "Ok"
    /\ iteration.polled = <<1, 2>>
    /\ iteration.served[1].out = PONG
    /\ iteration.served[2].socket = Socket("POLLIN", WouldBlock, TRUE)
    /\ iteration.accepted = <<3>>
    /\ connections = <<1, 2, 3>>

-----------------------------------------------------------------------------
(* Claims about a failure on the accept path *)

\* C31: when accept returns an error other than WouldBlock, or the accepted
\* socket cannot be made non-blocking, only the accept loop of that
\* iteration ends: the connections accepted before stay in the list, the
\* polled connections are processed in the same iteration, and the server
\* goes on to the next iteration.
C31_AcceptFailure ==
    iteration.accept \in {"Error", "SetNonblockingError"} =>
        /\ iteration.result # "Err"
        /\ Len(iteration.served) >= 1 \/ Len(iteration.polled) = 0
        /\ iteration.result = "Ok" =>
              /\ Len(iteration.served) = Len(iteration.polled)
              /\ Members(iteration.accepted) \subseteq Members(connections)

C31_NonblockingFailureEndsServer ==
    /\ iteration.accept = "SetNonblockingError"
    /\ iteration.result = "Err"
    /\ iteration.polled = <<1>>
    /\ iteration.reported[1] = Socket("POLLIN", PingCommand, TRUE)
    /\ iteration.served = <<>>
    /\ iteration.accepted = <<2>>
    /\ connections = <<1, 2>>
    /\ arrivals = 3

-----------------------------------------------------------------------------
(* Claims about the expiry a SET records *)

\* the place of the time option in an option list that holds one
TimeOptionAt(opts) == CHOOSE i \in 1..Len(opts) : IsTimeToken(opts, i)

\* C32: a SET that stores records as the expiry of the key now + 1000 * s
\* for EX s, now + ms for PX ms, 1000 * s for EXAT s and ms for PXAT ms; with
\* no time option and no KEEPTTL it records no expiry, whatever expiry the
\* key had before.
C32_RecordedExpiry ==
    LET opts == SetOpts(cmd)
        s == Shape(opts, 1)
    IN  (IsSet(cmd) /\ WellFormed(opts) /\ reply = OK) =>
            /\ SetKey(cmd) \in DOMAIN dbs[0]
            /\ s.times = 1 =>
                  dbs[0][SetKey(cmd)].ttl = Some(AskedExpiry(opts, TimeOptionAt(opts), now))
            /\ (s.times = 0 /\ ~s.keep) => dbs[0][SetKey(cmd)].ttl = None

\* a SET with EX s, s the largest u128, records an expiry below 1000 * s
C32_ExExpiryWrapped ==
    /\ IsSet(cmd)
    /\ SetOpts(cmd) = TimeOption(T_EX, ARG_MAX)
    /\ reply = OK
    /\ dbs[0][SetKey(cmd)].ttl.some
    /\ dbs[0][SetKey(cmd)].ttl.val < 1000 * DecimalValue(ARG_MAX)

\* C33: the expiry arithmetic of SET never wraps: for a time option whose
\* argument parses as an integer, the expiry asked for lies within the u128
\* range and is what a stored entry records, or the command is answered
\* -ERR value is not an integer or out of range and nothing is stored.
C33_ExactOrRejected ==
    LET opts == SetOpts(cmd) IN
    (/\ IsSet(cmd)
     /\ Len(opts) = 2
     /\ IsTimeToken(opts, 1)
     /\ ValidArg(opts[2])) =>
        \/ reply = NOT_AN_INTEGER /\ dbs[0] = pre_db
        \/ /\ AskedExpiry(opts, 1, now) <= U128_MAX
           /\ reply = OK
           /\ dbs[0][SetKey(cmd)].ttl = Some(AskedExpiry(opts, 1, now))

\* a SET with PX m, m the largest u128, is answered +OK and records an
\* expiry that lies before the wall clock
C33_PxSumWrapped ==
    /\ IsSet(cmd)
    /\ SetOpts(cmd) = TimeOption(T_PX, ARG_MAX)
    /\ now > 0
    /\ reply = OK
    /\ dbs[0][SetKey(cmd)].ttl = Some(now - 1)

-----------------------------------------------------------------------------
(* Claims about a keyspace index out of range *)

\* C36: load_rdb never reaches for a keyspace outside 0..15: a SELECTDB with
\* an index of 16 or more is answered with an error, or the selection is
\* refused, before a following record or RESIZEDB is applied; the load does
\* not end in an out-of-range access.
C36_SelectDbInRange ==
    (outcome.by = "load_rdb" /\ subject.kind = "out-of-range") =>
        outcome.kind \in {"Ok", "Err"}

\* SELECTDB 16 followed by a record: the loader panics with the record that
\* came before it left in keyspace 0
C36_SelectDb16Panics ==
    /\ subject.events = <<Record(K1, V1), SelectDb(16), Record(K2, V2), Eof>>
    /\ outcome.by = "load_rdb"
    /\ outcome.kind = "panic"
    /\ K1 \in DOMAIN outcome.DATABASES[0]

-----------------------------------------------------------------------------
(* Connection::process_event on the bytes of one read *)

\* Connection::process_input once parse has returned: its error leaves
\* through `?`, otherwise the terms are processed one by one
process_parsed(parsed, db, t, cfg) ==
    IF parsed.kind # "Ok"
    THEN [error |-> parsed.kind, result |-> Fatal(db)]
    ELSE [error |-> "none", result |-> process_input(parsed.terms, 1, db, t, cfg, <<>>)]

\* Connection::process_input on a read buffer: parsers::resp_data::parse runs
\* over the whole buffer before the first term is processed
parse_and_process(buf, db, t, cfg) == process_parsed(parse(buf), db, t, cfg)

InitRead ==
    /\ InitServer
    /\ subject = [kind |-> "none", bytes |-> <<>>]
    /\ outcome = [by |-> "none", error |-> "none", kind |-> "none"]

\* what Connection::process_event does with the result p of process_input:
\* Ok and ClientError keep the connection, the latter after write_error;
\* every other error is returned and the connection dropped with it
ReadProcessed(p, buf) ==
    /\ dbs' = [dbs EXCEPT ![0] = p.result.db]
    /\ reply' = IF p.result.kind = "client_error"
                THEN p.result.out \o write_error(p.result.msg) ELSE p.result.out
    /\ conn' = IF p.result.kind \in {"ok", "client_error"} THEN "open" ELSE "dropped"
    /\ crashed' = (p.result.kind = "panic")
    /\ outcome' = [by |-> "process_event", error |-> p.error, kind |-> p.result.kind]
    /\ subject' = buf
    /\ pre_db' = dbs[0]
    /\ UNCHANGED <<now, config, cmd, store, pre_store>>
    /\ UNCHANGED loop_vars

\* Connection::process_event with POLLIN set and read returning the n > 0
\* bytes of buf
ProcessBuffer(buf) ==
    /\ conn = "open"
    /\ ~crashed
    /\ ReadProcessed(parse_and_process(buf.bytes, dbs[0], now, config), buf)

\* commands in their wire form, one or several to a buffer
CompleteReads ==
    { <<SetCommand(K1, V1, <<>>)>>,
      <<GetCommand(K1)>>,
      <<PingCommand>>,
      <<SimpleString(T_PING)>>,
      <<SetCommand(K1, V1, <<>>), GetCommand(K1)>>,
      <<SetCommand(K2, V2, <<>>), SetCommand(K1, V1, PX1), PingCommand>>,
      <<GetCommand(K1), SetCommand(K1, V1, Tok(T_NX) \o Tok(T_XX))>> }

\* the first bytes of a command whose other bytes come with the next read
Cuts(bytes) == { SubSeq(bytes, 1, n) : n \in 1..(Len(bytes) - 1) }

SplitCommands ==
    Cuts(Wire(GetCommand(K1))) \cup Cuts(Wire(SetCommand(K2, V2, <<>>)))

\* a read buffer: complete commands, or complete commands followed by bytes
\* that are no complete term, with or without a command after them
ReadBuffers ==
    { [kind |-> "complete", bytes |-> WireAll(ts, 1)] : ts \in CompleteReads }
    \cup { [kind |-> "faulty", bytes |-> WireAll(ts, 1) \o fault] :
             ts \in CompleteReads \cup {<<>>},
             fault \in MalformedBytes \cup SplitCommands }
    \cup { [kind |-> "faulty",
            bytes |-> WireAll(ts, 1) \o <<33, 120, 13, 10>>        \* "!x\r\n"
                        \o Wire(SetCommand(K2, V2, <<>>))] :
             ts \in CompleteReads \cup {<<>>} }

\* the server goes on polling while the connection is in its list
NextRead ==
    /\ conn = "open"
    /\ \E buf \in ReadBuffers : ProcessBuffer(buf)

SpecRead == InitRead /\ [][NextRead]_vars

\* C37: a read buffer is processed all or nothing with respect to parsing:
\* when it holds a malformed or an incomplete term anywhere, the commands
\* before that term included, no command is executed, keyspace 0 is left as
\* it was, no reply is written and the connection is dropped with
\* InvalidInput.
C37_AllOrNothing ==
    (outcome.by = "process_event" /\ subject.kind = "faulty") =>
        /\ dbs[0] = pre_db
        /\ reply = <<>>
        /\ conn = "dropped"
        /\ ~crashed
        /\ outcome.error = "InvalidInput"

\* SET k2 v2, SET k1 v1 PX 1 and PING followed by the first bytes of a further
\* SET: neither key is stored, nothing is answered
C37_CommandsBeforeCutNotRun ==
    /\ outcome.by = "process_event"
    /\ subject.bytes =
          WireAll(<<SetCommand(K2, V2, <<>>), SetCommand(K1, V1, PX1), PingCommand>>, 1)
            \o <<42, 51, 13, 10, 36, 51, 13, 10, 83, 69>>
    /\ pre_db = EmptyMap
    /\ dbs[0] = EmptyMap
    /\ reply = <<>>
    /\ conn = "dropped"
    /\ outcome.error = "InvalidInput"

-----------------------------------------------------------------------------
(* Claims about what a command leaves alone *)

\* the command is one of PING, ECHO, COMMAND, CLIENT, or a CONFIG GET
IsReadOnly(data) ==
    \/ data.type = "SimpleString"
    \/ /\ data.type = "Array"
       /\ Len(data.data) >= 1
       /\ IsBulk(data.data[1])
       /\ \/ to_ascii_uppercase(data.data[1].data) \in {T_PING, T_ECHO, T_COMMAND, T_CLIENT}
          \/ IsConfigGet(data)

\* C38: there are always exactly 16 keyspaces and no command modifies the
\* keyspaces 1..15; PING, ECHO, COMMAND, CLIENT and CONFIG GET change no
\* keyspace; GET changes keyspace 0 only by removing the key asked for when
\* that key is expired.
C38_Frame ==
    /\ DOMAIN dbs = 0..15
    /\ \A i \in 1..15 : dbs[i] = EmptyMap
    /\ IsReadOnly(cmd) => dbs[0] = pre_db
    /\ IsGet(cmd) =>
          \/ dbs[0] = pre_db
          \/ /\ GetKey(cmd) \in DOMAIN pre_db
             /\ pre_db[GetKey(cmd)].ttl.some
             /\ now > pre_db[GetKey(cmd)].ttl.val
             /\ dbs[0] = MapRemove(pre_db, GetKey(cmd))

\* a GET of the expired k1 removes k1 and leaves k2 in keyspace 0
C38_ExpiredKeyRemovedOtherKept ==
    /\ IsGet(cmd)
    /\ GetKey(cmd) = K1
    /\ DOMAIN pre_db = {K1, K2}
    /\ pre_db[K1].ttl.some
    /\ now > pre_db[K1].ttl.val
    /\ dbs[0] = MapRemove(pre_db, K1)
    /\ reply = NULL

-----------------------------------------------------------------------------
(* The loop of parsers::resp_data::parse, one iteration at a time *)

\* the locals of parse: the input left and the terms pushed so far
ParseLocals(at, input, data) == [at |-> at, input |-> input, data |-> data]

InitParseLoop ==
    /\ InitServer
    /\ subject \in ParseBuffers
    /\ outcome = ParseLocals("loop", subject.bytes, <<>>)

\* one pass of `while !input.is_empty()`: the loop is left with Ok(data) on
\* the empty input and with InvalidInput when nom_data fails, otherwise the
\* term is pushed and input becomes what nom_data left
ParseIteration ==
    /\ outcome.at = "loop"
    /\ outcome' =
          IF Len(outcome.input) = 0 THEN [outcome EXCEPT !.at = "Ok"]
          ELSE LET r == nom_data(outcome.input) IN
               IF r.ok THEN ParseLocals("loop", r.rest, Append(outcome.data, r.data))
               ELSE ParseLocals("InvalidInput", outcome.input, <<>>)
    /\ UNCHANGED <<dbs, now, config, conn, crashed, cmd, reply, pre_db, store,
                   pre_store, subject>>
    /\ UNCHANGED loop_vars

NextParseLoop == ParseIteration

SpecParseLoop == InitParseLoop /\ [][NextParseLoop]_vars

\* C39: parse terminates on every finite buffer: every iteration of its loop
\* takes at least one byte off the input or leaves the loop, with the terms
\* or with an error.
C39_IterationConsumes ==
    [][outcome.at = "loop" =>
          \/ outcome'.at \in {"Ok", "InvalidInput"}
          \/ /\ outcome'.at = "loop"
             /\ Len(outcome'.input) < Len(outcome.input)]_vars

\* after two iterations on "*0\r\n+OK\r\n?" two terms are pushed, the empty
\* array among them, and one byte is left
C39_EmptyArrayConsumed ==
    /\ subject.bytes = <<42, 48, 13, 10, 43, 79, 75, 13, 10, 63>>
    /\ outcome.at = "loop"
    /\ outcome.data = <<Array(<<>>), SimpleString(B_OK)>>
    /\ outcome.input = <<63>>

-----------------------------------------------------------------------------
(* The loop of load_rdb, one iteration at a time *)

\* where load_rdb stands: in its loop with `input` left to read, or out of it
\* with Ok, Err or a panic; l holds its other locals
Pass(at, input, l) == [at |-> at, input |-> input, l |-> l]

\* what `?` and unwrap() leave the function with on a nom result that is not Ok
Leaves(r) == IF r.kind = "panic" THEN "panic" ELSE "Err"

\* a String record whose expired entry is skipped before `input = rest`
string_record_continue_first(input, rest, l) ==
    LET key == nom_size_encoded_string(rest) IN
    IF key.kind # "Ok" THEN Pass(Leaves(key), input, l)
    ELSE LET value == nom_size_encoded_string(key.rest) IN
    IF value.kind # "Ok" THEN Pass(Leaves(value), input, l)
    ELSE IF l.key_expiry.some /\ l.key_expiry.val < l.current_timestamp
    THEN Pass("loop", input, l)
    ELSE IF key.value.variant # "String" \/ value.value.variant # "String"
    THEN Pass("panic", value.rest, l)
    ELSE IF ~InRange(l.db_num) THEN Pass("panic", value.rest, l)
    ELSE Pass("loop", value.rest,
              [l EXCEPT
                 !.databases[l.db_num] =
                     MapInsert(@, key.value.value, value.value.value),
                 !.expiries[l.db_num] =
                     IF l.key_expiry.some
                     THEN MapInsert(@, key.value.value, l.key_expiry.val)
                     ELSE @])

\* the arm of ValueTypeEncoding::String: key and value are read with `?`,
\* `input = rest`, and then the record is skipped (continue) or inserted
string_record(input, rest, l) ==
    LET key == nom_size_encoded_string(rest) IN
    IF key.kind # "Ok" THEN Pass(Leaves(key), input, l)
    ELSE LET value == nom_size_encoded_string(key.rest) IN
    IF value.kind # "Ok" THEN Pass(Leaves(value), input, l)
    ELSE IF key.value.variant # "String" \/ value.value.variant # "String"
    THEN Pass("panic", value.rest, l)                            \* unimplemented!()
    ELSE IF l.key_expiry.some /\ l.key_expiry.val < l.current_timestamp
    THEN Pass("loop", value.rest, l)                             \* continue
    ELSE IF ~InRange(l.db_num) THEN Pass("panic", value.rest, l) \* unwrap()
    ELSE Pass("loop", value.rest,
              [l EXCEPT
                 !.databases[l.db_num] =
                     MapInsert(@, key.value.value, value.value.value),
                 !.expiries[l.db_num] =
                     IF l.key_expiry.some
                     THEN MapInsert(@, key.value.value, l.key_expiry.val)
                     ELSE @])

\* the arms of `match op_code`, input already moved past the opcode byte
op_code_arm(op_code, input, l) ==
    CASE op_code = "EOF" -> Pass("Ok", input, l)                 \* break
      [] op_code = "SELECTDB" ->
            LET encoded_db == nom_size_encoding(input) IN
            IF encoded_db.kind # "Ok" THEN Pass(Leaves(encoded_db), input, l)
            ELSE IF encoded_db.value.variant = "Length"
            THEN Pass("loop", encoded_db.rest,
                      [l EXCEPT !.db_num = encoded_db.value.value])
            ELSE Pass("Ok", encoded_db.rest, l)                  \* break
      [] op_code = "RESIZEDB" ->
            LET hash_table_size == nom_size_encoding(input) IN
            IF hash_table_size.kind # "Ok"
            THEN Pass(Leaves(hash_table_size), input, l)
            ELSE IF ~InRange(l.db_num)
            THEN Pass("panic", hash_table_size.rest, l)          \* unwrap()
            ELSE LET expiry_hash_table_size ==
                         nom_size_encoding(hash_table_size.rest) IN
                 IF expiry_hash_table_size.kind # "Ok"
                 THEN Pass(Leaves(expiry_hash_table_size), hash_table_size.rest, l)
                 ELSE Pass("loop", expiry_hash_table_size.rest, l)
      [] op_code = "EXPIRETIME" ->
            LET expiry == nom_le_int(input) IN
            IF expiry.kind # "Ok" THEN Pass(Leaves(expiry), input, l)
            ELSE Pass("loop", expiry.rest,
                      [l EXCEPT !.key_expiry = Some(expiry.value * 1000)])
      [] op_code = "EXPIRETIMEMS" ->
            LET expiry == nom_le_long(input) IN
            IF expiry.kind # "Ok" THEN Pass(Leaves(expiry), input, l)
            ELSE Pass("loop", expiry.rest,
                      [l EXCEPT !.key_expiry = Some(expiry.value)])
      [] OTHER ->                                                \* AUX
            LET section == nom_metadata_section(input) IN
            IF section.kind # "Ok" THEN Pass("panic", input, l)  \* unwrap()
            ELSE IF section.value[1].variant # "String"
            THEN Pass("panic", input, l)                         \* unimplemented!()
            ELSE Pass("loop", section.rest, l)

\* one pass of the `loop` of load_rdb
load_iteration(input, l) ==
    LET head == nom_opcode_or_value_type(input) IN
    IF head.kind # "Ok" THEN Pass("Ok", input, l)                \* Err(e) => break
    ELSE IF head.value.tag = "OpCode"
    THEN op_code_arm(head.value.of, head.rest, l)
    ELSE IF head.value.of = "String"
    THEN string_record(input, head.rest, l)
    ELSE Pass("panic", input, l)                                 \* unimplemented!()

\* the passes of the loop the model follows in one load
MaxPasses == 10

\* the pass the load is at, with the number of passes made
Passed(pass, n) == [at |-> pass.at, input |-> pass.input, l |-> pass.l, n |-> n]

NotEntered ==
    Passed(Pass("none", <<>>,
                Locals(0, None, [i \in 0..(DEFAULT_DATABASES - 1) |-> EmptyMap],
                       [i \in 0..(DEFAULT_DATABASES - 1) |-> EmptyMap], 0)),
           0)

InitLoadLoop ==
    /\ InitServer
    /\ subject = [kind |-> "none", events |-> <<>>, file |-> NoFile, clock |-> 0]
    /\ outcome = NotEntered

\* load_rdb up to its loop: the keyspaces are cleared, the file is opened and
\* read, the header is parsed
EnterLoad(snapshot, clock) ==
    /\ outcome.at = "none"
    /\ subject' = [kind |-> snapshot.kind, events |-> snapshot.events,
                   file |-> snapshot.file, clock |-> clock]
    /\ LET l == Locals(0, None, clear(outcome.l.databases),
                       clear(outcome.l.expiries), clock)
           header == nom_rdb_header(snapshot.file.bytes)
       IN  outcome' =
             IF ~snapshot.file.exists THEN Passed(Pass("Err", <<>>, l), 0)
             ELSE IF header.kind # "Ok"
             THEN Passed(Pass(Leaves(header), snapshot.file.bytes, l), 0)
             ELSE Passed(Pass("loop", header.rest, l), 0)
    /\ UNCHANGED <<dbs, now, config, conn, crashed, cmd, reply, pre_db, store,
                   pre_store>>
    /\ UNCHANGED loop_vars

\* one pass of the loop
LoadIteration ==
    /\ outcome.at = "loop"
    /\ outcome.n < MaxPasses
    /\ outcome' = Passed(load_iteration(outcome.input, outcome.l), outcome.n + 1)
    /\ UNCHANGED <<dbs, now, config, conn, crashed, cmd, reply, pre_db, store,
                   pre_store, subject>>
    /\ UNCHANGED loop_vars

NextLoadLoop ==
    \/ \E snapshot \in Snapshots, clock \in LoadClocks : EnterLoad(snapshot, clock)
    \/ LoadIteration

SpecLoadLoop == InitLoadLoop /\ [][NextLoadLoop]_vars

\* C40: load_rdb terminates on every finite snapshot, with or without an EOF
\* opcode: every iteration of its loop, the one that skips an expired record
\* included, moves the input on by at least one byte or leaves the loop.
C40_IterationAdvances ==
    [][outcome.at = "loop" =>
          \/ outcome'.at \in {"Ok", "Err", "panic"}
          \/ /\ outcome'.at = "loop"
             /\ Len(outcome'.input) < Len(outcome.input)]_vars

\* the record of k1, expired at the time of the load, is skipped: the loop
\* goes on with the record of k2 and keyspace 0 still empty
C40_ExpiredRecordSkipped ==
    /\ subject.events = <<SetExpiryMs(999), Record(K1, V1), Record(K2, V2), Eof>>
    /\ subject.clock = 1000
    /\ outcome.at = "loop"
    /\ outcome.input = StreamBytes(<<Record(K2, V2), Eof>>, 1)
    /\ outcome.l.databases[0] = EmptyMap

====
